---- MODULE Spec2Model ----
(***************************************************************************)
(* tppcnomics-analytics: the vote transaction coordinator (POST            *)
(* /api/votes), the matchup selector (GET /api/matchups/next) and the      *)
(* catalog synchronizer (ensureBootstrapData) over one shared store.       *)
(*                                                                         *)
(* Conventions of the model                                                *)
(*  - A database id is 1:1 with the row's unique key, so an Asset id is    *)
(*    the asset key, a VotingPair id is its pairKey, a Voter id is the     *)
(*    visitorId. A VoteEvent id is its position in the log.                *)
(*  - An asset key is <<prefix, n>>: the text before the species name and  *)
(*    a number standing for "species|gender".                              *)
(*  - Ratings are fixed point, in hundredths of an Elo point.              *)
(*  - Dates are whole UTC days.                                            *)
(***************************************************************************)
EXTENDS Integers, Sequences, FiniteSets, TLC

\* ------------------------------------------------------------------ bounds
MaxVoteRequests == 2      \* POST /api/votes requests in one behaviour
MaxDay == 1               \* the clock runs over the days 0..MaxDay

None == "none"            \* an absent text
NoRow == [absent |-> TRUE]  \* an absent row (null, undefined)
NoKey == <<>>               \* an absent asset key or id
NoDay == 0 - 1              \* an absent date

Min(a, b) == IF a < b THEN a ELSE b
Max(a, b) == IF a > b THEN a ELSE b

RECURSIVE SumOver(_, _)
SumOver(f, S) ==
  IF S = {} THEN 0
  ELSE LET x == CHOOSE y \in S : TRUE IN f[x] + SumOver(f, S \ {x})

RECURSIVE SeqSum(_)
SeqSum(s) == IF s = <<>> THEN 0 ELSE Head(s) + SeqSum(Tail(s))

SeqToSet(s) == {s[i] : i \in DOMAIN s}

\* ------------------------------------------------------------ pair-key.ts
GOLDEN_PREFIX == "Golden"
PLAIN_PREFIX == "Plain"

StartsWithGolden(key) == key[1] = GOLDEN_PREFIX

\* a.localeCompare(b) < 0 on asset keys
KeyLess(a, b) ==
  \/ a[1] = b[1] /\ a[2] < b[2]
  \/ a[1] = GOLDEN_PREFIX /\ b[1] # GOLDEN_PREFIX

RECURSIVE SortKeys(_)
SortKeys(S) ==
  IF S = {} THEN <<>>
  ELSE LET m == CHOOSE x \in S : \A y \in S \ {x} : KeyLess(x, y)
       IN <<m>> \o SortKeys(S \ {m})

\* [...new Set(list.filter(Boolean))].sort(localeCompare).join(" + "): the
\* joined text is kept as the sorted sequence of distinct keys; NoKey is an
\* entry that is blank after trim()
toBundleKey(assetOrAssets) == SortKeys(SeqToSet(assetOrAssets) \ {NoKey})

RECURSIVE BundleLess(_, _)
BundleLess(x, y) ==
  IF x = <<>> THEN y # <<>>
  ELSE IF y = <<>> THEN FALSE
  ELSE IF Head(x) = Head(y) THEN BundleLess(Tail(x), Tail(y))
  ELSE KeyLess(Head(x), Head(y))

\* faulty variant: the two bundle keys are joined as given
canonicalPairKeyUnsorted(a, b) == <<toBundleKey(a), toBundleKey(b)>>

\* [left, right].sort(localeCompare).join("::")
canonicalPairKey(a, b) ==
  LET left == toBundleKey(a)
      right == toBundleKey(b)
  IN IF BundleLess(right, left) THEN <<right, left>> ELSE <<left, right>>

\* ------------------------------------------------------------------ elo.ts
\* Ratings are integers in hundredths of a point (the code rounds to four
\* decimals). Pow10Table[j+1] = 10^(j/40) * 10^6.
EloUnit == 100
DefaultElo == 1500 * EloUnit
QScale == 1000000
QStep == 10 * EloUnit
QDecade == 400 * EloUnit
QClamp == 800 * EloUnit
ProbScale == 10000

Pow10Table ==
  << 1000000, 1059254, 1122018, 1188502, 1258925, 1333521, 1412538, 1496236,
     1584893, 1678804, 1778279, 1883649, 1995262, 2113489, 2238721, 2371374,
     2511886, 2660725, 2818383, 2985383, 3162278, 3349654, 3548134, 3758374,
     3981072, 4216965, 4466836, 4731513, 5011872, 5308844, 5623413, 5956621,
     6309573, 6683439, 7079458, 7498942, 7943282, 8413951, 8912509, 9440609,
     10000000 >>

\* 10 ** (d / 400) for a rating difference d, scaled by QScale; d is clamped
\* to +-800 points, which no rating of a bounded run leaves.
Pow10Of(dRaw) ==
  LET d == Max(0 - QClamp, Min(QClamp, dRaw))
      k == d \div QDecade
      rem == d % QDecade
      j == rem \div QStep
      t == rem % QStep
      lo == Pow10Table[j + 1]
      hi == Pow10Table[j + 2]
      frac == lo + ((hi - lo) * t) \div QStep
  IN CASE k = 2 -> frac * 100
       [] k = 1 -> frac * 10
       [] k = 0 -> frac
       [] k = -1 -> frac \div 10
       [] OTHER -> frac \div 100

\* scoreToQ, relative to 1500 (only ratios and the logarithm of sums are used)
scoreToQ(score) == Pow10Of(score - DefaultElo)

\* 400 * Math.log10(q): the largest d with Pow10Of(d) <= q
RECURSIVE Log10Search(_, _, _)
Log10Search(q, lo, hi) ==
  IF lo >= hi THEN lo
  ELSE LET mid == (lo + hi + 1) \div 2
       IN IF Pow10Of(mid) <= q THEN Log10Search(q, mid, hi)
          ELSE Log10Search(q, lo, mid - 1)

TeamScoreOf(qSum) == DefaultElo + Log10Search(qSum, 0 - QClamp, QClamp)

RECURSIVE ISqrtSearch(_, _, _)
ISqrtSearch(n, lo, hi) ==
  IF lo >= hi THEN lo
  ELSE LET mid == (lo + hi + 1) \div 2
       IN IF mid * mid <= n THEN ISqrtSearch(n, mid, hi)
          ELSE ISqrtSearch(n, lo, mid - 1)

\* 24 * Math.min(2, Math.sqrt(totalVotes / 5)), in rating units
KBase == 24
KFactorOf(totalVotes) ==
  IF totalVotes >= 20 THEN 2 * KBase * EloUnit
  ELSE ISqrtSearch(((KBase * EloUnit) * (KBase * EloUnit) * totalVotes) \div 5,
                   0, 2 * KBase * EloUnit)

EloResult(leftVotes, rightVotes) ==
  IF leftVotes > rightVotes THEN "left"
  ELSE IF leftVotes < rightVotes THEN "right" ELSE "tie"

\* faulty variant: the minVotes option is not looked at
BelowOneVote(totalVotes, minVotes) == totalVotes < 1

\* line 59: totalVotes < Math.max(1, Number(minVotes) || 1)
BelowMinVotes(totalVotes, minVotes) == totalVotes < Max(1, minVotes)

applyEloFromVotes(leftScore, rightScore, votesLeft, votesRight, minVotes) ==
  LET leftVotes == Max(0, votesLeft)
      rightVotes == Max(0, votesRight)
      totalVotes == leftVotes + rightVotes
      result == EloResult(leftVotes, rightVotes)
  IN IF BelowMinVotes(totalVotes, minVotes)
     THEN [leftScore |-> leftScore, rightScore |-> rightScore,
           totalVotes |-> totalVotes, result |-> result,
           affectsScore |-> FALSE, kFactor |-> 0]
     ELSE LET expectedLeft ==
                (ProbScale * (QScale \div 100))
                  \div ((QScale + Pow10Of(rightScore - leftScore)) \div 100)
              expectedRight == ProbScale - expectedLeft
              actualLeft == (ProbScale * leftVotes) \div totalVotes
              actualRight == ProbScale - actualLeft
              kFactor == KFactorOf(totalVotes)
          IN [leftScore |-> leftScore + (kFactor * (actualLeft - expectedLeft)) \div ProbScale,
              rightScore |-> rightScore + (kFactor * (actualRight - expectedRight)) \div ProbScale,
              totalVotes |-> totalVotes, result |-> result,
              affectsScore |-> TRUE, kFactor |-> kFactor]

applyEloFromVotesBundles(leftScores, rightScores, votesLeft, votesRight, minVotes) ==
  LET leftList == IF leftScores = <<>> THEN <<DefaultElo>> ELSE leftScores
      rightList == IF rightScores = <<>> THEN <<DefaultElo>> ELSE rightScores
      leftQ == [i \in DOMAIN leftList |-> scoreToQ(leftList[i])]
      rightQ == [i \in DOMAIN rightList |-> scoreToQ(rightList[i])]
      leftQSum == SeqSum(leftQ)
      rightQSum == SeqSum(rightQ)
      leftTeamScore == TeamScoreOf(leftQSum)
      rightTeamScore == TeamScoreOf(rightQSum)
      team == applyEloFromVotes(leftTeamScore, rightTeamScore, votesLeft, votesRight, minVotes)
  IN IF ~team.affectsScore
     THEN [result |-> team.result, affectsScore |-> FALSE,
           leftScores |-> leftList, rightScores |-> rightList]
     ELSE LET leftTeamDelta == team.leftScore - leftTeamScore
              rightTeamDelta == team.rightScore - rightTeamScore
          IN [result |-> team.result, affectsScore |-> TRUE,
              leftScores |->
                [i \in DOMAIN leftList |->
                   leftList[i] + (leftTeamDelta * (leftQ[i] \div 100)) \div (leftQSum \div 100)],
              rightScores |->
                [i \in DOMAIN rightList |->
                   rightList[i] + (rightTeamDelta * (rightQ[i] \div 100)) \div (rightQSum \div 100)]]

\* ---------------------------------------------------------------- voter.ts
XpBase == 10
XpStreakCap == 7

\* a Date is a count of clock ticks since the epoch, TicksPerDay to a UTC day
TicksPerDay == 2

\* faulty variant: the day of a zone one tick ahead of UTC
dayKeyLocal(d) == (d + 1) \div TicksPerDay

\* lines 3-5: d.toISOString().slice(0, 10), the UTC calendar day of d
dayKeyUtc(d) == d \div TicksPerDay

\* voter is NoRow or a Voter row; lastVotedAt is a Date or NoDay
computeStreakAndXp(voter, now) ==
  LET today == dayKeyUtc(now)
      yesterday == dayKeyUtc(now - TicksPerDay)
      streakDays ==
        IF voter # NoRow /\ voter.lastVotedAt # NoDay
        THEN LET last == dayKeyUtc(voter.lastVotedAt)
             IN IF last = today THEN Max(1, voter.streakDays)
                ELSE IF last = yesterday THEN Max(1, voter.streakDays + 1)
                ELSE 1
        ELSE 1
      xpGain == XpBase + Min(streakDays, XpStreakCap)
  IN [streakDays |-> streakDays,
      xpGain |-> xpGain,
      nextXp |-> (IF voter = NoRow THEN 0 ELSE voter.xp) + xpGain,
      nextTotalVotes |-> (IF voter = NoRow THEN 0 ELSE voter.totalVotes) + 1]


\* ------------------------------------------------------------------ store
VARIABLES
  assets,      \* Asset rows: key -> [active, seedSourced]
  pairs,       \* VotingPair rows: pairKey -> row
  scores,      \* AssetScore rows: assetId -> row
  voters,      \* Voter rows: visitorId -> row
  voteEvents,  \* VoteEvent log, in creation order
  cursor,      \* IngestionCursor.lastValue of web_bootstrap_seed_version, or NoRow
  clock,       \* the current time, in clock ticks
  vreq,        \* POST /api/votes handlers: request id -> locals
  commitOrder, \* history: the vote requests whose transaction committed, in order
  deploy,      \* the build that new requests run, as its place in Releases
  redeploys,   \* how many times a new build was rolled out
  greq,        \* GET /api/matchups/next handlers: request id -> locals
  lib          \* a call of a library function under way: its inputs, position and result

storeVars == <<assets, pairs, scores, voters, voteEvents, cursor>>
libVars == <<lib>>
voteVars == <<clock, vreq, commitOrder, libVars>>
catVars == <<deploy, redeploys, greq, libVars>>
vars == <<assets, pairs, scores, voters, voteEvents, cursor, clock, vreq, commitOrder,
          deploy, redeploys, greq, lib>>

G(i) == <<GOLDEN_PREFIX, i>>
P(i) == <<PLAIN_PREFIX, i>>

Has(f, k) == k \in DOMAIN f
Lookup(f, k) == IF k \in DOMAIN f THEN f[k] ELSE NoRow

\* ------------------------------------------------------- marketpoll seeds
\* A seed file is kept as what parseMarketpollSeedCsv returns for it: the
\* number of errors, the parsed assets and the generated pairs.
SeedGoldenCount == 50     \* Golden assets of the valid seed files
FEATURED_PAIR_COUNT == 180
MaxNeighborGap == 2
MIN_SEED_ASSETS == 50
MIN_SEED_PAIRS == 100

SeedPair(leftKeys, rightKeys, mode, featured) ==
  [leftKeys |-> leftKeys, rightKeys |-> rightKeys, matchupMode |-> mode, featured |-> featured]

\* the place of the 1v1 pair (G(lo+i-1), G(lo+i-1+gap)) in closeness order
NeighborRank(i, gap, n) == SeqSum([h \in 1..(gap - 1) |-> n - h]) + i

\* 1v1 pairs of neighbours among G(lo)..G(hi) up to maxGap apart; the
\* FEATURED_PAIR_COUNT closest are featured
SeedPairs1v1(lo, hi, maxGap) ==
  { SeedPair(<<G(x[1])>>, <<G(x[1] + x[2])>>, "1v1",
             NeighborRank(x[1] - lo + 1, x[2], hi - lo + 1) <= FEATURED_PAIR_COUNT) :
      x \in {y \in (lo..hi) \X (1..maxGap) : y[1] + y[2] <= hi} }

SeedBundlePairs(lo) ==
  { SeedPair(<<G(lo + 1), G(lo + 2)>>, <<G(lo)>>, "2v1", FALSE),
    SeedPair(<<G(lo)>>, <<G(lo + 3), G(lo + 4)>>, "1v2", FALSE),
    SeedPair(<<G(lo), G(lo + 1)>>, <<G(lo + 2), G(lo + 3)>>, "2v2", FALSE) }

\* the pairs of the file's one non-Golden asset
SeedPlainPairs(hi) ==
  { SeedPair(<<G(hi)>>, <<P(20)>>, "1v1", FALSE),
    SeedPair(<<G(hi - 1), P(20)>>, <<G(hi)>>, "2v1", FALSE) }

SeedFile(lo, hi, maxGap, errors) ==
  [errors |-> errors,
   assets |-> {G(i) : i \in lo..hi} \cup {P(20)},
   pairs |-> SeedPairs1v1(lo, hi, maxGap) \cup SeedBundlePairs(lo) \cup SeedPlainPairs(hi)]

\* a build of the application: BOOTSTRAP_SEED_VERSION and data/marketpoll_seeds.csv
DeployV1 == [version |-> "seed-v1", seed |-> SeedFile(1, SeedGoldenCount, MaxNeighborGap, 0)]
DeployV2 == [version |-> "seed-v2", seed |-> SeedFile(2, SeedGoldenCount + 1, MaxNeighborGap, 0)]
DeployParseError == [version |-> "seed-v3", seed |-> SeedFile(1, SeedGoldenCount, MaxNeighborGap, 1)]
\* 49 assets: G(2), G(3) and 47 the valid files do not have
DeployFewAssets ==
  [version |-> "seed-v4",
   seed |-> [errors |-> 0,
             assets |-> {G(2), G(3)} \cup {G(i) : i \in 101..(98 + MIN_SEED_ASSETS)},
             pairs |-> {SeedPair(<<G(2)>>, <<G(3)>>, "1v1", TRUE)}
                         \cup SeedPairs1v1(101, 98 + MIN_SEED_ASSETS, 1)]]
DeployFewPairs ==
  [version |-> "seed-v5",
   seed |-> [SeedFile(1, MIN_SEED_ASSETS, 1, 0) EXCEPT
               !.pairs = { SeedPair(<<G(x[1])>>, <<G(x[1] + x[2])>>, "1v1", TRUE) :
                             x \in {y \in (1..MIN_SEED_ASSETS) \X (1..3) :
                                      /\ y[1] + y[2] <= MIN_SEED_ASSETS
                                      /\ (y[2] <= 2 \/ y[1] <= MIN_SEED_PAIRS - 98)} }]]

\* IngestionCursor.lastValue: BOOTSTRAP_SEED_VERSION, or that with ":fallback"
CursorValue(version, fallback) == [version |-> version, fallback |-> fallback]

\* ------------------------------------------------------------ bootstrap.ts
\* buildSeedAssetRows: the row of a parsed asset
SeedAssetRow == [active |-> TRUE, seedSourced |-> TRUE]

\* asset.createMany({data, skipDuplicates: true}): rows of keys already
\* present are left as they are
AssetCreateMany(rows, keys, row) ==
  [k \in DOMAIN rows \cup keys |-> IF k \in DOMAIN rows THEN rows[k] ELSE row]

\* seedFromMarketpollCsv, the row of one generated pair; NoRow when an id does
\* not resolve or both sides start with the same asset
SeedPairRow(seedPair, assetIds) ==
  LET leftAssetId == IF seedPair.leftKeys[1] \in assetIds THEN seedPair.leftKeys[1] ELSE NoKey
      rightAssetId == IF seedPair.rightKeys[1] \in assetIds THEN seedPair.rightKeys[1] ELSE NoKey
  IN IF leftAssetId = NoKey \/ rightAssetId = NoKey \/ leftAssetId = rightAssetId THEN NoRow
     ELSE [pairKey |-> canonicalPairKey(seedPair.leftKeys, seedPair.rightKeys),
           leftAssetId |-> leftAssetId,
           rightAssetId |-> rightAssetId,
           leftAssetKeys |-> seedPair.leftKeys,
           rightAssetKeys |-> seedPair.rightKeys,
           matchupMode |-> seedPair.matchupMode,
           featured |-> seedPair.featured,
           active |-> TRUE]

\* votingPair.createMany({data, skipDuplicates: true})
PairCreateMany(rows, newRows) ==
  LET fresh == {r \in newRows : r.pairKey \notin DOMAIN rows}
  IN [k \in DOMAIN rows \cup {r.pairKey : r \in fresh} |->
        IF k \in DOMAIN rows THEN rows[k] ELSE CHOOSE r \in fresh : r.pairKey = k]

\* deactivateNonGoldenRecords, first statement
DeactivateNonGoldenAssets(rows) ==
  [k \in DOMAIN rows |->
     IF ~StartsWithGolden(k) THEN [rows[k] EXCEPT !.active = FALSE] ELSE rows[k]]

\* deactivateNonGoldenRecords, the ids picked from the pairs read
NonGoldenPairIds(rows) ==
  {k \in DOMAIN rows :
     /\ rows[k].active
     /\ (~StartsWithGolden(rows[k].leftAssetId) \/ ~StartsWithGolden(rows[k].rightAssetId))}

PairDeactivate(rows, ids) ==
  [k \in DOMAIN rows |-> IF k \in ids THEN [rows[k] EXCEPT !.active = FALSE] ELSE rows[k]]

EmptyRows == [k \in {} |-> NoRow]

\* the catalog one successful run of ensureBootstrapData leaves on an empty store
SeededAssets(seed) == DeactivateNonGoldenAssets(AssetCreateMany(EmptyRows, seed.assets, SeedAssetRow))
SeededPairs(seed) ==
  LET created == PairCreateMany(EmptyRows,
                   {SeedPairRow(sp, seed.assets) : sp \in seed.pairs} \ {NoRow})
  IN PairDeactivate(created, NonGoldenPairIds(created))

\* ------------------------------------------------- app/api/votes/route.ts
VoteReqs == 1..MaxVoteRequests
Visitors == {"v1", "v2"}
VoteSides == {"LEFT", "RIGHT", "SKIP"}
\* the selectedSide values a client sends; "UP" fails VoteRequestSchema
SentSides == VoteSides \cup {"UP"}

PairOneVsOne == canonicalPairKey(<<G(1)>>, <<G(2)>>)
PairTwoVsOne == canonicalPairKey(<<G(2), G(3)>>, <<G(1)>>)
PairInactive == canonicalPairKey(<<G(SeedGoldenCount)>>, <<P(20)>>)
PairMissing == canonicalPairKey(<<P(1)>>, <<P(2)>>)
SentPairIds == {PairOneVsOne, PairTwoVsOne, PairInactive, PairMissing}

TxPcs == {"tx", "readScores", "upsertScores", "commit"}

IdleVote ==
  [pc |-> "idle", visitorId |-> None, pairId |-> NoKey, selectedSide |-> None,
   pair |-> NoRow, existingVoter |-> NoRow, progression |-> NoRow, now |-> NoDay,
   leftAssetIds |-> <<>>, rightAssetIds |-> <<>>, selectedAssetId |-> NoKey,
   wVoter |-> NoRow, wEvent |-> NoRow, wScores |-> EmptyRows,
   existingByAssetId |-> EmptyRows, elo |-> NoRow, idx |-> 0,
   status |-> 0, errorCode |-> None, attempts |-> 0, isolationLevel |-> None]

\* faulty variant: the active flag is not looked at
PairVotableIgnoresActive(pair) == pair # NoRow

\* line 68: if (!pair || !pair.active) return 404
PairVotable(pair) == pair # NoRow /\ pair.active

\* faulty variant: every vote, SKIP too, goes on to the rating engine
IsDecisiveAlways(selectedSide) == TRUE

\* line 166: if (selectedSide !== VoteSide.SKIP)
IsDecisive(selectedSide) == selectedSide # "SKIP"

\* lines 83-84 and 99-100: the side's keys, resolved to the ids of existing assets
SideAssetIds(assetKeys, firstKey, assetRows) ==
  LET keys == IF Len(assetKeys) > 0 THEN assetKeys ELSE <<firstKey>>
  IN SelectSeq(keys, LAMBDA k : k \in DOMAIN assetRows)

\* lines 15-121: parse the payload, look the pair and the voter up, compute the
\* progression, resolve the assets and call prisma.$transaction
VoteLookup(r) ==
  /\ vreq[r].pc = "idle"
  /\ \E visitorId \in Visitors, pairId \in SentPairIds, selectedSide \in SentSides :
       LET pair == Lookup(pairs, pairId)
           existingVoter == Lookup(voters, visitorId)
           base == [vreq[r] EXCEPT !.visitorId = visitorId, !.pairId = pairId,
                                   !.selectedSide = selectedSide]
       IN IF selectedSide \notin VoteSides
          THEN vreq' = [vreq EXCEPT ![r] = [base EXCEPT !.pc = "done", !.status = 400]]
          ELSE IF ~PairVotable(pair)
          THEN vreq' = [vreq EXCEPT ![r] = [base EXCEPT !.pc = "done", !.status = 404]]
          ELSE LET leftAssetIds == SideAssetIds(pair.leftAssetKeys, pair.leftAssetId, assets)
                   rightAssetIds == SideAssetIds(pair.rightAssetKeys, pair.rightAssetId, assets)
               IN IF leftAssetIds = <<>> \/ rightAssetIds = <<>>
                  THEN vreq' = [vreq EXCEPT ![r] = [base EXCEPT !.pc = "done", !.status = 500]]
                  ELSE vreq' = [vreq EXCEPT ![r] =
                         [base EXCEPT
                            !.pc = "tx",
                            !.pair = pair,
                            !.existingVoter = existingVoter,
                            !.now = clock,
                            !.progression = computeStreakAndXp(existingVoter, clock),
                            !.leftAssetIds = leftAssetIds,
                            !.rightAssetIds = rightAssetIds,
                            !.selectedAssetId =
                               IF selectedSide = "LEFT" THEN leftAssetIds[1]
                               ELSE IF selectedSide = "RIGHT" THEN rightAssetIds[1]
                               ELSE NoKey,
                            !.attempts = 1,
                            !.isolationLevel = "default"]]
  /\ UNCHANGED <<storeVars, clock, commitOrder>>

votesLeftOf(selectedSide) == IF selectedSide = "LEFT" THEN 1 ELSE 0
votesRightOf(selectedSide) == IF selectedSide = "RIGHT" THEN 1 ELSE 0

\* Row locks of the open transactions: a row written inside a transaction is
\* locked until that transaction ends.
VoterLockedBy(s, visitorId) ==
  vreq[s].pc \in TxPcs /\ vreq[s].wVoter # NoRow /\ vreq[s].visitorId = visitorId
ScoreLockedBy(s, assetId) ==
  vreq[s].pc \in TxPcs /\ assetId \in DOMAIN vreq[s].wScores

ScoreTargets(q) == q.leftAssetIds \o q.rightAssetIds

\* the transactions whose row lock the next statement of r waits for
WaitsFor(r) ==
  IF vreq[r].pc = "tx"
  THEN {s \in DOMAIN vreq \ {r} : VoterLockedBy(s, vreq[r].visitorId)}
  ELSE IF vreq[r].pc = "upsertScores"
  THEN {s \in DOMAIN vreq \ {r} : ScoreLockedBy(s, ScoreTargets(vreq[r])[vreq[r].idx])}
  ELSE {}

RECURSIVE WaitClosure(_, _)
WaitClosure(S, n) ==
  IF n = 0 THEN S ELSE WaitClosure(S \cup UNION {WaitsFor(s) : s \in S}, n - 1)

Deadlocked(r) == r \in WaitClosure(WaitsFor(r), Len(vreq))

\* lines 123-164: tx.voter.upsert and tx.voteEvent.create
TxVoterUpsert(r) ==
  LET q == vreq[r] IN
  /\ q.pc = "tx"
  /\ WaitsFor(r) = {}
  /\ vreq' = [vreq EXCEPT ![r] =
       [q EXCEPT
          !.wVoter = [xp |-> q.progression.nextXp,
                      streakDays |-> q.progression.streakDays,
                      totalVotes |-> q.progression.nextTotalVotes,
                      lastVotedAt |-> q.now],
          !.wEvent = [source |-> "WEB_APP",
                      selectedSide |-> q.selectedSide,
                      weight |-> 1,
                      pairId |-> q.pair.pairKey,
                      pairKey |-> q.pair.pairKey,
                      voterId |-> q.visitorId,
                      leftAssetId |-> q.pair.leftAssetId,
                      rightAssetId |-> q.pair.rightAssetId,
                      selectedAssetId |-> q.selectedAssetId],
          !.pc = IF IsDecisive(q.selectedSide) THEN "readScores" ELSE "commit"]]
  /\ UNCHANGED <<storeVars, clock, commitOrder>>

EloOr1500(byId, assetId) == IF assetId \in DOMAIN byId THEN byId[assetId].elo ELSE DefaultElo

\* lines 167-196: tx.assetScore.findMany and the rating engine
TxReadScores(r) ==
  LET q == vreq[r]
      allAssetIds == SeqToSet(q.leftAssetIds) \cup SeqToSet(q.rightAssetIds)
      existingByAssetId == [a \in allAssetIds \cap DOMAIN scores |-> scores[a]]
  IN
  /\ q.pc = "readScores"
  /\ vreq' = [vreq EXCEPT ![r] =
       [q EXCEPT
          !.existingByAssetId = existingByAssetId,
          !.elo = applyEloFromVotesBundles(
                    [i \in DOMAIN q.leftAssetIds |-> EloOr1500(existingByAssetId, q.leftAssetIds[i])],
                    [i \in DOMAIN q.rightAssetIds |-> EloOr1500(existingByAssetId, q.rightAssetIds[i])],
                    votesLeftOf(q.selectedSide), votesRightOf(q.selectedSide), 1),
          !.idx = 1,
          !.pc = "upsertScores"]]
  /\ UNCHANGED <<storeVars, clock, commitOrder>>

Outcome(result, side) ==
  IF result = side THEN "win" ELSE IF result = "tie" THEN "tie" ELSE "loss"

Bit(b) == IF b THEN 1 ELSE 0

\* lines 203-226 and 234-257: the row one tx.assetScore.upsert writes; exists
\* says whether the row is there (update) or not (create)
ScoreUpsertRow(exists, base, nextElo, outcome, votesFor, votesAgainst, now) ==
  IF exists
  THEN [elo |-> nextElo,
        wins |-> (IF base = NoRow THEN 0 ELSE base.wins) + Bit(outcome = "win"),
        losses |-> (IF base = NoRow THEN 0 ELSE base.losses) + Bit(outcome = "loss"),
        ties |-> (IF base = NoRow THEN 0 ELSE base.ties) + Bit(outcome = "tie"),
        pollsCount |-> (IF base = NoRow THEN 0 ELSE base.pollsCount) + 1,
        votesFor |-> (IF base = NoRow THEN 0 ELSE base.votesFor) + votesFor,
        votesAgainst |-> (IF base = NoRow THEN 0 ELSE base.votesAgainst) + votesAgainst,
        lastPollAt |-> now]
  ELSE [elo |-> nextElo,
        wins |-> Bit(outcome = "win"),
        losses |-> Bit(outcome = "loss"),
        ties |-> Bit(outcome = "tie"),
        pollsCount |-> 1,
        votesFor |-> votesFor,
        votesAgainst |-> votesAgainst,
        lastPollAt |-> now]

\* lines 198-258: one iteration of the two upsert loops
TxScoreUpsert(r) ==
  LET q == vreq[r]
      targets == ScoreTargets(q)
      assetId == targets[q.idx]
      isLeft == q.idx <= Len(q.leftAssetIds)
      base == Lookup(q.existingByAssetId, assetId)
      nextElo == IF isLeft THEN q.elo.leftScores[q.idx]
                 ELSE q.elo.rightScores[q.idx - Len(q.leftAssetIds)]
      outcome == Outcome(q.elo.result, IF isLeft THEN "left" ELSE "right")
      votesLeft == votesLeftOf(q.selectedSide)
      votesRight == votesRightOf(q.selectedSide)
      row == ScoreUpsertRow(assetId \in DOMAIN scores \/ assetId \in DOMAIN q.wScores,
                            base, nextElo, outcome,
                            IF isLeft THEN votesLeft ELSE votesRight,
                            IF isLeft THEN votesRight ELSE votesLeft, q.now)
  IN
  /\ q.pc = "upsertScores"
  /\ WaitsFor(r) = {}
  /\ vreq' = [vreq EXCEPT ![r] =
       [q EXCEPT
          !.wScores = [a \in DOMAIN q.wScores \cup {assetId} |->
                         IF a = assetId THEN row ELSE q.wScores[a]],
          !.idx = q.idx + 1,
          !.pc = IF q.idx = Len(targets) THEN "commit" ELSE "upsertScores"]]
  /\ UNCHANGED <<storeVars, clock, commitOrder>>

\* the rows of a transaction's write set, laid over the committed rows
WithVoter(rows, q) ==
  [v \in DOMAIN rows \cup {q.visitorId} |-> IF v = q.visitorId THEN q.wVoter ELSE rows[v]]
WithScores(rows, q) ==
  [a \in DOMAIN rows \cup DOMAIN q.wScores |->
     IF a \in DOMAIN q.wScores THEN q.wScores[a] ELSE rows[a]]

\* line 262: the transaction callback returns and the transaction commits;
\* lines 264-283: the ok response
TxCommit(r) ==
  LET q == vreq[r] IN
  /\ q.pc = "commit"
  /\ voters' = WithVoter(voters, q)
  /\ voteEvents' = Append(voteEvents, q.wEvent)
  /\ scores' = WithScores(scores, q)
  /\ vreq' = [vreq EXCEPT ![r] = [q EXCEPT !.pc = "done", !.status = 200]]
  /\ commitOrder' = Append(commitOrder, r)
  /\ UNCHANGED <<assets, pairs, cursor, clock>>

\* faulty variant: the voter upsert goes through the plain client, not the
\* transaction client, and stays when the transaction fails
TxRollbackKeepsVoter(r) ==
  /\ voters' = IF vreq[r].wVoter # NoRow THEN WithVoter(voters, vreq[r]) ELSE voters
  /\ UNCHANGED <<voteEvents, scores>>

\* a throw inside prisma.$transaction rolls the transaction back
TxRollback(r) == UNCHANGED <<voters, voteEvents, scores>>

\* lines 284-293: a statement of the transaction fails: P2034 for the victim
\* of a deadlock, another code when the datastore is lost; the handler
\* answers 500
TxFail(r) ==
  LET q == vreq[r] IN
  /\ q.pc \in TxPcs
  /\ \E code \in {"P2034", "P1001"} :
       /\ code = "P2034" => Deadlocked(r)
       /\ vreq' = [vreq EXCEPT ![r] = [q EXCEPT !.pc = "done", !.status = 500, !.errorCode = code]]
  /\ TxRollback(r)
  /\ UNCHANGED <<assets, pairs, cursor, clock, commitOrder>>

Tick ==
  /\ clock < MaxDay * TicksPerDay
  /\ clock' = clock + TicksPerDay
  /\ UNCHANGED <<storeVars, vreq, commitOrder>>

InitVote ==
  /\ assets = SeededAssets(DeployV1.seed)
  /\ pairs = SeededPairs(DeployV1.seed)
  /\ scores = EmptyRows
  /\ voters = EmptyRows
  /\ voteEvents = <<>>
  /\ cursor = CursorValue(DeployV1.version, FALSE)
  /\ clock = 0
  /\ vreq = [r \in VoteReqs |-> IdleVote]
  /\ commitOrder = <<>>
  /\ deploy = 0
  /\ redeploys = 0
  /\ greq = <<>>
  /\ lib = NoRow

NextVote ==
  \/ \E r \in VoteReqs : VoteLookup(r) /\ UNCHANGED catVars
  \/ \E r \in VoteReqs : TxVoterUpsert(r) /\ UNCHANGED catVars
  \/ \E r \in VoteReqs : TxReadScores(r) /\ UNCHANGED catVars
  \/ \E r \in VoteReqs : TxScoreUpsert(r) /\ UNCHANGED catVars
  \/ \E r \in VoteReqs : TxCommit(r) /\ UNCHANGED catVars
  \/ \E r \in VoteReqs : TxFail(r) /\ UNCHANGED catVars
  \/ Tick /\ UNCHANGED catVars

SpecVote == InitVote /\ [][NextVote]_vars

\* ------------------------------------------------- claims on SpecVote
DEFAULT_MAX_RETRIES == 3

Committed(r) == vreq[r].status = 200
CommittedBy(visitorId) == {r \in VoteReqs : Committed(r) /\ vreq[r].visitorId = visitorId}
DecisiveOn(assetId) ==
  {r \in VoteReqs : /\ Committed(r)
                    /\ vreq[r].selectedSide \in {"LEFT", "RIGHT"}
                    /\ assetId \in SeqToSet(ScoreTargets(vreq[r]))}
AllDecisive == {r \in VoteReqs : Committed(r) /\ vreq[r].selectedSide \in {"LEFT", "RIGHT"}}

Perms(S) ==
  {f \in [1..Cardinality(S) -> S] : \A i, j \in 1..Cardinality(S) : f[i] = f[j] => i = j}

EloOf(eloMap, assetId) == IF assetId \in DOMAIN eloMap THEN eloMap[assetId] ELSE DefaultElo

\* the ratings after one vote is rated on the ratings eloMap
RateOn(eloMap, q) ==
  LET res == applyEloFromVotesBundles(
               [i \in DOMAIN q.leftAssetIds |-> EloOf(eloMap, q.leftAssetIds[i])],
               [i \in DOMAIN q.rightAssetIds |-> EloOf(eloMap, q.rightAssetIds[i])],
               votesLeftOf(q.selectedSide), votesRightOf(q.selectedSide), 1)
      targets == SeqToSet(ScoreTargets(q))
  IN [a \in DOMAIN eloMap \cup targets |->
        IF \E i \in DOMAIN q.leftAssetIds : q.leftAssetIds[i] = a
        THEN res.leftScores[CHOOSE i \in DOMAIN q.leftAssetIds : q.leftAssetIds[i] = a]
        ELSE IF \E i \in DOMAIN q.rightAssetIds : q.rightAssetIds[i] = a
        THEN res.rightScores[CHOOSE i \in DOMAIN q.rightAssetIds : q.rightAssetIds[i] = a]
        ELSE eloMap[a]]

RECURSIVE SerialElo(_, _)
SerialElo(order, eloMap) ==
  IF order = <<>> THEN eloMap
  ELSE SerialElo(Tail(order), RateOn(eloMap, vreq[Head(order)]))

OnWinningSide(q, assetId) ==
  \/ q.selectedSide = "LEFT" /\ assetId \in SeqToSet(q.leftAssetIds)
  \/ q.selectedSide = "RIGHT" /\ assetId \in SeqToSet(q.rightAssetIds)

\* C1 (as claimed): the votes of one visitor that returned ok, two or more,
\* leave the Voter row with totalVotes = the number of those votes and xp =
\* the sum of their xpGain (the row starts absent, at 0): no increment is lost.
C1_NoLostVoterUpdate ==
  \A v \in Visitors :
    Cardinality(CommittedBy(v)) >= 2 =>
      /\ v \in DOMAIN voters
      /\ voters[v].totalVotes = Cardinality(CommittedBy(v))
      /\ voters[v].xp = SumOver([r \in VoteReqs |-> vreq[r].progression.xpGain], CommittedBy(v))

\* C2 (as claimed): two or more committed decisive votes on one asset leave
\* its AssetScore counting every one of them (pollsCount, wins + losses,
\* votesFor + votesAgainst, wins = the votes it won) and with the elo of some
\* serial order of the committed decisive votes.
C2_NoLostScoreUpdate ==
  \A a \in DOMAIN scores :
    Cardinality(DecisiveOn(a)) >= 2 =>
      /\ scores[a].pollsCount = Cardinality(DecisiveOn(a))
      /\ scores[a].wins + scores[a].losses = Cardinality(DecisiveOn(a))
      /\ scores[a].votesFor + scores[a].votesAgainst = Cardinality(DecisiveOn(a))
      /\ scores[a].wins = Cardinality({r \in DecisiveOn(a) : OnWinningSide(vreq[r], a)})
      /\ \E order \in Perms(AllDecisive) : SerialElo(order, EmptyRows)[a] = scores[a].elo

\* C3 (as claimed): a vote that fails on a serialization conflict (P2034) has
\* run its transaction DEFAULT_MAX_RETRIES + 1 times, each under Serializable
\* isolation, before the failure is returned.
C3_ConflictRetried ==
  \A r \in VoteReqs :
    (vreq[r].pc = "done" /\ vreq[r].errorCode = "P2034") =>
      /\ vreq[r].attempts = DEFAULT_MAX_RETRIES + 1
      /\ vreq[r].isolationLevel = "Serializable"

RECURSIVE ReplayVoters(_, _)
ReplayVoters(order, rows) ==
  IF order = <<>> THEN rows
  ELSE ReplayVoters(Tail(order), WithVoter(rows, vreq[Head(order)]))

RECURSIVE ReplayScores(_, _)
ReplayScores(order, rows) ==
  IF order = <<>> THEN rows
  ELSE ReplayScores(Tail(order), WithScores(rows, vreq[Head(order)]))

\* C4: the store holds the writes of the votes that returned ok, each vote's
\* whole write set (Voter row, its one VoteEvent and, for LEFT/RIGHT, the
\* AssetScore row of every asset of both sides), and no write of any vote
\* that failed.
C4_VoteWritesAtomic ==
  /\ SeqToSet(commitOrder) = {r \in VoteReqs : Committed(r)}
  /\ Len(commitOrder) = Cardinality({r \in VoteReqs : Committed(r)})
  /\ voters = ReplayVoters(commitOrder, EmptyRows)
  /\ scores = ReplayScores(commitOrder, EmptyRows)
  /\ voteEvents = [i \in DOMAIN commitOrder |-> vreq[commitOrder[i]].wEvent]
  /\ \A r \in VoteReqs :
       Committed(r) =>
         /\ vreq[r].wVoter # NoRow
         /\ vreq[r].wEvent # NoRow
         /\ vreq[r].selectedSide \in {"LEFT", "RIGHT"} =>
              DOMAIN vreq[r].wScores = SeqToSet(ScoreTargets(vreq[r]))

\* a vote failed after it had written its Voter row and an AssetScore row,
\* while another vote committed
C4_Witness ==
  \E r, s \in VoteReqs :
    /\ vreq[r].status = 500 /\ vreq[r].errorCode # None
    /\ vreq[r].wVoter # NoRow /\ DOMAIN vreq[r].wScores # {}
    /\ Committed(s)

C5_SkipState ==
  \A r \in VoteReqs :
    vreq[r].selectedSide = "SKIP" =>
      /\ vreq[r].elo = NoRow
      /\ vreq[r].existingByAssetId = EmptyRows
      /\ vreq[r].wScores = EmptyRows
      /\ Committed(r) =>
           /\ vreq[r].wEvent.selectedSide = "SKIP"
           /\ vreq[r].wEvent.selectedAssetId = NoKey
           /\ vreq[r].visitorId \in DOMAIN voters

C5_SkipStep ==
  \A r \in VoteReqs :
    (vreq[r].selectedSide = "SKIP" /\ vreq[r].pc # "done" /\ vreq'[r].status = 200) =>
      /\ scores' = scores
      /\ voteEvents' = Append(voteEvents, vreq[r].wEvent)
      /\ voters'[vreq[r].visitorId] = vreq[r].wVoter
      /\ voters'[vreq[r].visitorId].totalVotes = vreq[r].progression.nextTotalVotes

\* C5: a SKIP vote never runs the rating engine and never reads or writes an
\* AssetScore row; the step that commits it leaves every AssetScore row as it
\* was, writes the Voter row and appends one VoteEvent with selectedSide SKIP
\* and no selectedAssetId.
C5_SkipNeverRates == []C5_SkipState /\ [][C5_SkipStep]_vars

\* a SKIP vote committed while an AssetScore row existed
C5_Witness ==
  \E r \in VoteReqs :
    /\ vreq[r].selectedSide = "SKIP" /\ Committed(r)
    /\ DOMAIN scores # {}
    /\ voteEvents[Len(voteEvents)].selectedSide = "SKIP"

\* C6: a vote with a well-formed payload for a pairId that is missing or whose
\* pair is inactive is answered 404 and has written nothing: no Voter row, no
\* VoteEvent, no AssetScore row; no VoteEvent of the log is for such a pair.
C6_UnvotablePairRejected ==
  /\ \A r \in VoteReqs :
       ( /\ vreq[r].pc # "idle"
         /\ vreq[r].selectedSide \in VoteSides
         /\ (vreq[r].pairId \notin DOMAIN pairs \/ ~pairs[vreq[r].pairId].active) ) =>
           /\ vreq[r].pc = "done" /\ vreq[r].status = 404
           /\ vreq[r].wVoter = NoRow /\ vreq[r].wEvent = NoRow /\ vreq[r].wScores = EmptyRows
           /\ r \notin SeqToSet(commitOrder)
  /\ \A i \in DOMAIN voteEvents :
       voteEvents[i].pairId \in DOMAIN pairs /\ pairs[voteEvents[i].pairId].active

\* one vote for the inactive pair and one for a missing pair were answered
C6_Witness ==
  \E r, s \in VoteReqs :
    /\ vreq[r].pairId = PairInactive /\ vreq[r].status = 404
    /\ vreq[s].pairId = PairMissing /\ vreq[s].status = 404

\* ------------------------------------------------------- default-seed.ts
DefaultAssetCount == 12
DEFAULT_ASSETS == {P(i) : i \in 1..DefaultAssetCount}
\* six pairs of consecutive default assets, the first two featured
DEFAULT_PAIRS ==
  { SeedPair(<<P(2 * i - 1)>>, <<P(2 * i)>>, "1v1", i <= 2) : i \in 1..(DefaultAssetCount \div 2) }
DefaultAssetRow == [active |-> TRUE, seedSourced |-> FALSE]

\* ------------------------------------------- lib/bootstrap.ts, step by step
MaxGetRequests == 2
MaxRedeploys == 1
GetReqs == 1..MaxGetRequests

\* route.ts lines 17-34: the canonical keys of the pairs the build's seed file parses
\* to; none when the file has errors or yields no pair
getValidSeedPairKeys(seed) ==
  IF seed.errors = 0 /\ seed.pairs # {}
  THEN {canonicalPairKey(sp.leftKeys, sp.rightKeys) : sp \in seed.pairs}
  ELSE {}

\* the builds in the order they are rolled out
Releases == <<DeployParseError, DeployV1, DeployV2, DeployFewAssets, DeployFewPairs>>
NoDeploy == 0
Build(q) == Releases[q.deploy]
\* getValidSeedPairKeys of each build (route.ts lines 17-34, cached per process)
ValidSeedPairKeysOf == [i \in DOMAIN Releases |-> getValidSeedPairKeys(Releases[i].seed)]

\* lines 20-29: the checks that make seedFromMarketpollCsv throw
SeedValidIgnoringErrors(seed) ==
  ~(Cardinality(seed.assets) < MIN_SEED_ASSETS \/ Cardinality(seed.pairs) < MIN_SEED_PAIRS)

SeedValid(seed) ==
  /\ ~(seed.errors > 0)
  /\ ~(Cardinality(seed.assets) < MIN_SEED_ASSETS \/ Cardinality(seed.pairs) < MIN_SEED_PAIRS)

\* faulty variant: the early return is never taken
hasActiveGoldenPairsNever(rows) == FALSE

\* lines 146-163
hasActiveGoldenPairs(rows) ==
  \E k \in DOMAIN rows :
    /\ rows[k].active
    /\ StartsWithGolden(rows[k].leftAssetId)
    /\ StartsWithGolden(rows[k].rightAssetId)

\* line 247: votingPair.count({ where: { active: true } })
CountActivePairs(rows) == Cardinality({k \in DOMAIN rows : rows[k].active})

IdleGet ==
  [pc |-> "idle", deploy |-> NoDeploy, visitorId |-> None, excludePairId |-> NoKey,
   bootOutcome |-> None, seededAssetIds |-> {}, nonGoldenPairIds |-> {},
   hasAnyPairs |-> 0 - 1, fallbackAssetIds |-> {},
   excludedPairIds |-> {}, where |-> None, featuredCount |-> 0, normalCount |-> 0,
   bucket |-> None, secondTry |-> FALSE, selectedPairId |-> NoKey,
   pair |-> NoRow, status |-> 0]

GetStep(g, pc, next) ==
  /\ greq[g].pc = pc
  /\ greq' = [greq EXCEPT ![g] = next]

\* route.ts line 91 and bootstrap.ts lines 209-214: the request arrives at a
\* process of the current build; ensureBootstrapData reads the cursor
GetStart(g, visitorId, excludePairId) ==
  /\ GetStep(g, "idle",
       [greq[g] EXCEPT
          !.deploy = deploy, !.visitorId = visitorId, !.excludePairId = excludePairId,
          !.pc = IF cursor = CursorValue(Releases[deploy].version, FALSE) THEN "hasGolden" ELSE "seed"])
  /\ UNCHANGED <<storeVars, voteVars, deploy, redeploys>>

\* lines 215-217
BootHasActiveGolden(g) ==
  /\ GetStep(g, "hasGolden",
       IF hasActiveGoldenPairs(pairs)
       THEN [greq[g] EXCEPT !.bootOutcome = "skipped", !.pc = "voter"]
       ELSE [greq[g] EXCEPT !.pc = "seed"])
  /\ UNCHANGED <<storeVars, voteVars, deploy, redeploys>>

\* lines 17-35: parse, validate, asset.createMany; a throw goes to line 247
BootSeedAssets(g) ==
  LET seed == Build(greq[g]).seed IN
  /\ greq[g].pc = "seed"
  /\ IF SeedValid(seed)
     THEN /\ GetStep(g, "seed", [greq[g] EXCEPT !.pc = "findAssets"])
          /\ assets' = AssetCreateMany(assets, seed.assets, SeedAssetRow)
     ELSE /\ GetStep(g, "seed", [greq[g] EXCEPT !.pc = "countPairs"])
          /\ UNCHANGED assets
  /\ UNCHANGED <<pairs, scores, voters, voteEvents, cursor, voteVars, deploy, redeploys>>

\* lines 37-49
BootFindAssets(g) ==
  /\ GetStep(g, "findAssets",
       [greq[g] EXCEPT !.seededAssetIds = Build(greq[g]).seed.assets \cap DOMAIN assets,
                       !.pc = "seedPairs"])
  /\ UNCHANGED <<storeVars, voteVars, deploy, redeploys>>

\* faulty variant: the votingPair.createMany is left out
BootSeedPairsSkipped(g) ==
  /\ GetStep(g, "seedPairs", [greq[g] EXCEPT !.pc = "deactAssets"])
  /\ UNCHANGED <<storeVars, voteVars, deploy, redeploys>>

\* lines 50-84
BootSeedPairs(g) ==
  /\ GetStep(g, "seedPairs", [greq[g] EXCEPT !.pc = "deactAssets"])
  /\ pairs' = PairCreateMany(pairs,
                {SeedPairRow(sp, greq[g].seededAssetIds) : sp \in Build(greq[g]).seed.pairs} \ {NoRow})
  /\ UNCHANGED <<assets, scores, voters, voteEvents, cursor, voteVars, deploy, redeploys>>

\* faulty variant: deactivation also removes the score rows of the assets
BootDeactivateAssetsDroppingScores(g) ==
  /\ GetStep(g, "deactAssets", [greq[g] EXCEPT !.pc = "readPairs"])
  /\ assets' = DeactivateNonGoldenAssets(assets)
  /\ scores' = [a \in {k \in DOMAIN scores : StartsWithGolden(k)} |-> scores[a]]
  /\ UNCHANGED <<pairs, voters, voteEvents, cursor, voteVars, deploy, redeploys>>

\* lines 166-177
BootDeactivateAssets(g) ==
  /\ GetStep(g, "deactAssets", [greq[g] EXCEPT !.pc = "readPairs"])
  /\ assets' = DeactivateNonGoldenAssets(assets)
  /\ UNCHANGED <<pairs, scores, voters, voteEvents, cursor, voteVars, deploy, redeploys>>

\* lines 179-194
BootReadPairs(g) ==
  /\ GetStep(g, "readPairs",
       [greq[g] EXCEPT !.nonGoldenPairIds = NonGoldenPairIds(pairs),
                       !.pc = IF NonGoldenPairIds(pairs) = {} THEN "cursorSeeded" ELSE "deactPairs"])
  /\ UNCHANGED <<storeVars, voteVars, deploy, redeploys>>

\* faulty variant: the votingPair.updateMany is left out
BootDeactivatePairsSkipped(g) ==
  /\ GetStep(g, "deactPairs", [greq[g] EXCEPT !.pc = "cursorSeeded"])
  /\ UNCHANGED <<storeVars, voteVars, deploy, redeploys>>

\* lines 196-205
BootDeactivatePairs(g) ==
  /\ GetStep(g, "deactPairs", [greq[g] EXCEPT !.pc = "cursorSeeded"])
  /\ pairs' = PairDeactivate(pairs, greq[g].nonGoldenPairIds)
  /\ UNCHANGED <<assets, scores, voters, voteEvents, cursor, voteVars, deploy, redeploys>>

\* lines 234-244
BootCursorSeeded(g) ==
  /\ GetStep(g, "cursorSeeded", [greq[g] EXCEPT !.bootOutcome = "seeded", !.pc = "voter"])
  /\ cursor' = CursorValue(Build(greq[g]).version, FALSE)
  /\ UNCHANGED <<assets, pairs, scores, voters, voteEvents, voteVars, deploy, redeploys>>

\* lines 247-250
BootCountActive(g) ==
  /\ GetStep(g, "countPairs",
       [greq[g] EXCEPT !.hasAnyPairs = CountActivePairs(pairs),
                       !.pc = IF CountActivePairs(pairs) = 0 THEN "fallbackAssets" ELSE "cursorFallback"])
  /\ UNCHANGED <<storeVars, voteVars, deploy, redeploys>>

\* lines 88-97
FallbackAssets(g) ==
  /\ GetStep(g, "fallbackAssets", [greq[g] EXCEPT !.pc = "fallbackFind"])
  /\ assets' = AssetCreateMany(assets, DEFAULT_ASSETS, DefaultAssetRow)
  /\ UNCHANGED <<pairs, scores, voters, voteEvents, cursor, voteVars, deploy, redeploys>>

\* lines 99-110
FallbackFindAssets(g) ==
  /\ GetStep(g, "fallbackFind",
       [greq[g] EXCEPT !.fallbackAssetIds = DEFAULT_ASSETS \cap DOMAIN assets,
                       !.pc = "fallbackPairs"])
  /\ UNCHANGED <<storeVars, voteVars, deploy, redeploys>>

\* lines 112-143
FallbackPairs(g) ==
  /\ GetStep(g, "fallbackPairs", [greq[g] EXCEPT !.pc = "cursorFallback"])
  /\ pairs' = PairCreateMany(pairs,
                {SeedPairRow(sp, greq[g].fallbackAssetIds) : sp \in DEFAULT_PAIRS} \ {NoRow})
  /\ UNCHANGED <<assets, scores, voters, voteEvents, cursor, voteVars, deploy, redeploys>>

\* faulty variant: the fallback path records the seed version itself
BootCursorFallbackAsSeeded(g) ==
  /\ GetStep(g, "cursorFallback", [greq[g] EXCEPT !.bootOutcome = "fallback", !.pc = "voter"])
  /\ cursor' = CursorValue(Build(greq[g]).version, FALSE)
  /\ UNCHANGED <<assets, pairs, scores, voters, voteEvents, voteVars, deploy, redeploys>>

\* lines 252-261
BootCursorFallback(g) ==
  /\ GetStep(g, "cursorFallback", [greq[g] EXCEPT !.bootOutcome = "fallback", !.pc = "voter"])
  /\ cursor' = CursorValue(Build(greq[g]).version, TRUE)
  /\ UNCHANGED <<assets, pairs, scores, voters, voteEvents, voteVars, deploy, redeploys>>

\* ------------------------------------------------ lib/matchup-picker.ts
\* Math.random() is a multiple of 1 / RngScale in [0, 1)
RngScale == 1000
RngDraws == {0, RngScale - 1}
FEATURED_PAIR_WEIGHT == 2
RECENT_PAIR_EXCLUDE_LIMIT == 20
NoOffset == 0 - 1

\* faulty variant: the featured count is taken without its weight
pickWeightedBucketUnweighted(featuredCountRaw, normalCountRaw, featuredWeightRaw, raw) ==
  LET featuredCount == Max(0, featuredCountRaw)
      normalCount == Max(0, normalCountRaw)
      roll == (raw * (featuredCount + normalCount)) \div RngScale
  IN IF featuredCount = 0 /\ normalCount = 0 THEN None
     ELSE IF normalCount = 0 THEN "featured"
     ELSE IF featuredCount = 0 THEN "normal"
     ELSE IF roll < featuredCount THEN "featured" ELSE "normal"

\* lines 57-75 of the listing in sprite-resolver.test.ts (lib/matchup-picker.ts)
pickWeightedBucket(featuredCountRaw, normalCountRaw, featuredWeightRaw, raw) ==
  LET featuredCount == Max(0, featuredCountRaw)
      normalCount == Max(0, normalCountRaw)
      featuredWeight == Max(1, featuredWeightRaw)
      weightedFeatured == featuredCount * featuredWeight
      totalWeight == weightedFeatured + normalCount
      roll == (raw * totalWeight) \div RngScale
  IN IF featuredCount = 0 /\ normalCount = 0 THEN None
     ELSE IF normalCount = 0 THEN "featured"
     ELSE IF featuredCount = 0 THEN "normal"
     ELSE IF roll < weightedFeatured THEN "featured" ELSE "normal"

pickRandomOffset(countRaw, raw) ==
  LET count == Max(0, countRaw)
  IN IF count <= 0 THEN NoOffset ELSE (raw * count) \div RngScale

\* -------------------------------------- app/api/matchups/next/route.ts
\* faulty variant: the where clause without its pairKey condition
MatchesBaseWhereAnyKey(row, validSeedPairKeys) ==
  /\ row.active
  /\ StartsWithGolden(row.leftAssetId)
  /\ StartsWithGolden(row.rightAssetId)

\* lines 134-147: baseWhere
MatchesBaseWhere(row, validSeedPairKeys) ==
  /\ row.active
  /\ (validSeedPairKeys # {} => row.pairKey \in validSeedPairKeys)
  /\ StartsWithGolden(row.leftAssetId)
  /\ StartsWithGolden(row.rightAssetId)

\* faulty variant: filteredWhere without its id notIn condition
WhereIdsNotFiltered(rows, q, featured) ==
  LET validSeedPairKeys == ValidSeedPairKeysOf[q.deploy]
  IN {k \in DOMAIN rows :
        /\ MatchesBaseWhere(rows[k], validSeedPairKeys)
        /\ rows[k].featured = featured}

\* the ids the where clause of a request selects, per featured flag;
\* lines 149-156: filteredWhere adds id notIn excludedPairIds
WhereIds(rows, q, featured) ==
  LET validSeedPairKeys == ValidSeedPairKeysOf[q.deploy]
  IN {k \in DOMAIN rows :
        /\ MatchesBaseWhere(rows[k], validSeedPairKeys)
        /\ rows[k].featured = featured
        /\ (q.where = "filtered" => k \notin q.excludedPairIds)}

\* orderBy: { id: "asc" }: ids are opaque strings; their order is taken to be
\* the order of the pair's two bundles (of one or two keys), left one first
KeyCode(key) == (IF StartsWithGolden(key) THEN 0 ELSE 1000) + key[2]
BundleCode(bundle) ==
  IF Len(bundle) = 1 THEN KeyCode(bundle[1]) * 2000
  ELSE KeyCode(bundle[1]) * 2000 + KeyCode(bundle[2]) + 1
IdCodeLess(x, y) == x[1] < y[1] \/ (x[1] = y[1] /\ x[2] < y[2])

\* the elements of a set, one after another
RECURSIVE SeqOfSet(_)
SeqOfSet(S) ==
  IF S = {} THEN <<>>
  ELSE LET x == CHOOSE y \in S : TRUE IN <<x>> \o SeqOfSet(S \ {x})

\* lines 44-54: findFirst({ where, orderBy: { id: "asc" }, skip: offset })
findFirstSkip(ids, offset) ==
  LET coded == {<<BundleCode(k[1]), BundleCode(k[2]), k>> : k \in ids}
  IN IF offset = NoOffset \/ offset >= Cardinality(ids) THEN NoKey
     ELSE SortSeq(SeqOfSet(coded), IdCodeLess)[offset + 1][3]

\* lines 110-123: the pairIds of the voter's latest WEB_APP votes
RecentPairIds(events, voterId) ==
  LET mine == {i \in DOMAIN events : events[i].source = "WEB_APP" /\ events[i].voterId = voterId}
  IN {events[i].pairId :
        i \in {j \in mine : Cardinality({h \in mine : h > j}) < RECENT_PAIR_EXCLUDE_LIMIT}}

\* lines 93-131
GetReadVoter(g) ==
  LET q == greq[g]
      recent == IF q.visitorId \in DOMAIN voters THEN RecentPairIds(voteEvents, q.visitorId) ELSE {}
  IN
  /\ GetStep(g, "voter",
       [q EXCEPT !.excludedPairIds =
                    recent \cup (IF q.excludePairId # NoKey THEN {q.excludePairId} ELSE {}),
                 !.where = "filtered", !.pc = "count"])
  /\ UNCHANGED <<storeVars, voteVars, deploy, redeploys>>

\* faulty variant: an empty selection is not repeated with baseWhere
NoPickNoFallback(q) == [q EXCEPT !.selectedPairId = NoKey, !.pc = "findUnique"]

\* lines 160-162, 164: a selection that came back empty is repeated once
\* with baseWhere; after that there is no pair
NoPick(q) ==
  IF q.where = "filtered"
  THEN [q EXCEPT !.where = "base", !.bucket = None, !.secondTry = FALSE, !.pc = "count"]
  ELSE [q EXCEPT !.selectedPairId = NoKey, !.pc = "findUnique"]

\* lines 58-74: the two counts and the bucket
PickCount(g) ==
  LET q == greq[g]
      featuredCount == Cardinality(WhereIds(pairs, q, TRUE))
      normalCount == Cardinality(WhereIds(pairs, q, FALSE))
  IN
  /\ \E raw \in RngDraws :
       LET chosenBucket == pickWeightedBucket(featuredCount, normalCount, FEATURED_PAIR_WEIGHT, raw)
           counted == [q EXCEPT !.featuredCount = featuredCount, !.normalCount = normalCount]
       IN GetStep(g, "count",
            IF chosenBucket = None THEN NoPick(counted)
            ELSE [counted EXCEPT !.bucket = chosenBucket, !.secondTry = FALSE, !.pc = "pick"])
  /\ UNCHANGED <<storeVars, voteVars, deploy, redeploys>>

\* lines 36-55 and 76-86: findFirst in the bucket, then in the other bucket
PickFind(g) ==
  LET q == greq[g]
      featured == q.bucket = "featured"
      count == IF featured THEN q.featuredCount ELSE q.normalCount
      otherCount == IF featured THEN q.normalCount ELSE q.featuredCount
  IN
  /\ \E raw \in RngDraws :
       LET picked == findFirstSkip(WhereIds(pairs, q, featured), pickRandomOffset(count, raw))
       IN GetStep(g, "pick",
            IF picked # NoKey THEN [q EXCEPT !.selectedPairId = picked, !.pc = "findUnique"]
            ELSE IF ~q.secondTry /\ otherCount > 0
            THEN [q EXCEPT !.bucket = IF featured THEN "normal" ELSE "featured", !.secondTry = TRUE]
            ELSE NoPick(q))
  /\ UNCHANGED <<storeVars, voteVars, deploy, redeploys>>

\* lines 164-206 and the response: the pair with its two assets, or 404
GetFindUnique(g) ==
  LET q == greq[g]
      row == IF q.selectedPairId = NoKey THEN NoRow ELSE Lookup(pairs, q.selectedPairId)
  IN
  /\ GetStep(g, "findUnique",
       IF row = NoRow THEN [q EXCEPT !.status = 404, !.pc = "done"]
       ELSE [q EXCEPT !.pair = row, !.status = 200, !.pc = "done"])
  /\ UNCHANGED <<storeVars, voteVars, deploy, redeploys>>

\* a new build is rolled out: another BOOTSTRAP_SEED_VERSION and seed file
Redeploy ==
  /\ redeploys < MaxRedeploys
  /\ deploy < Len(Releases)
  /\ deploy' = deploy + 1
  /\ redeploys' = redeploys + 1
  /\ UNCHANGED <<storeVars, voteVars, greq>>

\* ------------------------------------------------------------ the catalog
GetVisitors == {"v1"}
\* the excludePairId query parameter: absent, or the id of a pair shown before
PairShownBefore == canonicalPairKey(<<G(2)>>, <<G(3)>>)
SentExcludePairIds == {NoKey, PairShownBefore}

InitCatalog ==
  /\ assets = EmptyRows
  /\ pairs = EmptyRows
  /\ scores = EmptyRows
  /\ voters = EmptyRows
  /\ voteEvents = <<>>
  /\ cursor = NoRow
  /\ clock = 0
  /\ vreq = [r \in VoteReqs |-> IdleVote]
  /\ commitOrder = <<>>
  /\ deploy \in DOMAIN Releases
  /\ redeploys = 0
  /\ greq = [g \in GetReqs |-> IdleGet]
  /\ lib = NoRow

NextCatalog ==
  \/ \E g \in GetReqs, v \in GetVisitors, x \in SentExcludePairIds : GetStart(g, v, x)
  \/ \E g \in GetReqs : BootHasActiveGolden(g)
  \/ \E g \in GetReqs : BootSeedAssets(g)
  \/ \E g \in GetReqs : BootFindAssets(g)
  \/ \E g \in GetReqs : BootSeedPairs(g)
  \/ \E g \in GetReqs : BootDeactivateAssets(g)
  \/ \E g \in GetReqs : BootReadPairs(g)
  \/ \E g \in GetReqs : BootDeactivatePairs(g)
  \/ \E g \in GetReqs : BootCursorSeeded(g)
  \/ \E g \in GetReqs : BootCountActive(g)
  \/ \E g \in GetReqs : FallbackAssets(g)
  \/ \E g \in GetReqs : FallbackFindAssets(g)
  \/ \E g \in GetReqs : FallbackPairs(g)
  \/ \E g \in GetReqs : BootCursorFallback(g)
  \/ \E g \in GetReqs : GetReadVoter(g)
  \/ \E g \in GetReqs : PickCount(g)
  \/ \E g \in GetReqs : PickFind(g)
  \/ \E g \in GetReqs : GetFindUnique(g)
  \/ Redeploy

SpecCatalog == InitCatalog /\ [][NextCatalog]_vars

\* ---------------------------------------------- claims on SpecCatalog
\* the pairs of the store a request's build may show: active, both side
\* assets Golden, and of the build's seed keys when its seed file yields any
EligibleIds(rows, q) ==
  {k \in DOMAIN rows :
     /\ rows[k].active
     /\ rows[k].leftAssetId[1] = "Golden" /\ rows[k].rightAssetId[1] = "Golden"
     /\ (ValidSeedPairKeysOf[q.deploy] = {} \/ rows[k].pairKey \in ValidSeedPairKeysOf[q.deploy])}

C7_Answered ==
  \A g \in GetReqs :
    greq[g].pc = "done" =>
      /\ greq[g].status \in {200, 404}
      /\ greq[g].status = 404 <=> greq[g].selectedPairId = NoKey
      /\ greq[g].status = 200 <=> greq[g].pair # NoRow

C7_Step ==
  \A g \in GetReqs :
    ( /\ greq[g].pc \in {"count", "pick"}
      /\ greq'[g].pc = "findUnique"
      /\ greq'[g].selectedPairId = NoKey ) => EligibleIds(pairs, greq[g]) = {}

\* C7: a GET /api/matchups/next that is answered is answered with a pair or
\* with 404; the selection gives up without a pair only at a moment when the
\* store holds no active eligible pair, whatever the exclusion list holds, so
\* a request whose exclusions cover every eligible pair still gets a pair.
C7_PairWheneverEligible == []C7_Answered /\ [][C7_Step]_vars

\* a request whose exclusion list held every eligible pair was answered with
\* a pair by the selection repeated without the exclusions
C7_Witness ==
  \E g \in GetReqs :
    /\ greq[g].pc = "done" /\ greq[g].status = 200
    /\ greq[g].where = "base"
    /\ greq[g].excludedPairIds # {}
    /\ EligibleIds(pairs, greq[g]) # {}
    /\ EligibleIds(pairs, greq[g]) \subseteq greq[g].excludedPairIds

\* C8: the pair a GET /api/matchups/next returns is the one row it selected:
\* active, its left and right asset Golden-prefixed and, when the seed file of
\* the request's build yields pair keys, its pairKey one of them.
C8_ReturnedPairEligible ==
  \A g \in GetReqs :
    greq[g].status = 200 =>
      /\ greq[g].pair # NoRow
      /\ greq[g].pair.pairKey = greq[g].selectedPairId
      /\ greq[g].pair.active
      /\ greq[g].pair.leftAssetId[1] = "Golden"
      /\ greq[g].pair.rightAssetId[1] = "Golden"
      /\ (ValidSeedPairKeysOf[greq[g].deploy] # {} =>
            greq[g].pair.pairKey \in ValidSeedPairKeysOf[greq[g].deploy])

\* a pair was returned from a store that also holds an active Golden pair
\* whose key the build's seed file does not have, and an inactive pair
C8_Witness ==
  \E g \in GetReqs :
    /\ greq[g].status = 200
    /\ ValidSeedPairKeysOf[greq[g].deploy] # {}
    /\ \E k \in DOMAIN pairs :
         /\ pairs[k].active
         /\ pairs[k].leftAssetId[1] = "Golden" /\ pairs[k].rightAssetId[1] = "Golden"
         /\ k \notin ValidSeedPairKeysOf[greq[g].deploy]
    /\ \E k \in DOMAIN pairs : ~pairs[k].active

SeedFailsValidation(seed) ==
  \/ seed.errors > 0
  \/ Cardinality(seed.assets) < 50
  \/ Cardinality(seed.pairs) < 100

C9_Step ==
  \A g \in GetReqs :
    ( /\ greq[g].deploy # NoDeploy
      /\ SeedFailsValidation(Releases[greq[g].deploy].seed)
      /\ greq'[g] # greq[g] ) =>
        /\ \A k \in DOMAIN assets : k \in DOMAIN assets' /\ assets'[k] = assets[k]
        /\ \A k \in DOMAIN pairs : k \in DOMAIN pairs' /\ pairs'[k] = pairs[k]
        /\ (DOMAIN assets' # DOMAIN assets \/ DOMAIN pairs' # DOMAIN pairs) =>
             /\ greq[g].hasAnyPairs = 0
             /\ DOMAIN assets' \ DOMAIN assets \subseteq DEFAULT_ASSETS
             /\ \A k \in DOMAIN pairs' \ DOMAIN pairs :
                  pairs'[k].leftAssetId \in DEFAULT_ASSETS /\ pairs'[k].rightAssetId \in DEFAULT_ASSETS
        /\ cursor' # cursor => cursor' = CursorValue(Releases[greq[g].deploy].version, TRUE)

C9_After ==
  \A g \in GetReqs :
    ( /\ greq[g].deploy # NoDeploy
      /\ SeedFailsValidation(Releases[greq[g].deploy].seed)
      /\ greq[g].pc = "voter" ) =>
        /\ greq[g].bootOutcome = "fallback"
        /\ \E k \in DOMAIN pairs : pairs[k].active

\* C9: an ensureBootstrapData run whose seed file fails validation (a parse
\* error, fewer than 50 assets or fewer than 100 pairs) changes no Asset or
\* VotingPair row that exists; it inserts rows, the default catalog only, only
\* after it counted no active pair; when it returns an active pair exists.
C9_FailedSeedKeepsCatalog == []C9_After /\ [][C9_Step]_vars

\* a run with a failing seed file returned on a store that had a live Golden
\* catalog when it counted the active pairs
C9_Witness ==
  \E g \in GetReqs :
    /\ greq[g].deploy # NoDeploy
    /\ SeedFailsValidation(Releases[greq[g].deploy].seed)
    /\ greq[g].bootOutcome = "fallback"
    /\ greq[g].hasAnyPairs > 0
    /\ \E k \in DOMAIN pairs : pairs[k].active /\ pairs[k].leftAssetId[1] = "Golden"

\* C10 (as claimed): when ensureBootstrapData has just returned from a
\* successful seeding, no other request running, every seed-sourced Golden asset is active exactly when
\* the seed file of the build has its key, and every pair of Golden assets
\* made from a seed file is active exactly when the seed file has its pairKey.
C10_ActiveIffInSeed ==
  \A g \in GetReqs :
    ( /\ greq[g].pc = "voter" /\ greq[g].bootOutcome = "seeded"
      /\ \A h \in GetReqs \ {g} : greq[h].pc \in {"idle", "done"} ) =>
      /\ \A k \in DOMAIN assets :
           (assets[k].seedSourced /\ k[1] = "Golden") =>
             (assets[k].active <=> k \in Releases[greq[g].deploy].seed.assets)
      /\ \A k \in DOMAIN pairs :
           ( /\ pairs[k].leftAssetKeys # <<>>
             /\ \A i \in DOMAIN pairs[k].leftAssetKeys : pairs[k].leftAssetKeys[i][1] = "Golden"
             /\ \A i \in DOMAIN pairs[k].rightAssetKeys : pairs[k].rightAssetKeys[i][1] = "Golden" ) =>
             (pairs[k].active <=> k \in ValidSeedPairKeysOf[greq[g].deploy])


\* ------------------------- lib/bootstrap.ts: one run from start to end
\* lines 208-262 with no other writer in between: the catalog and the cursor
\* that one call of ensureBootstrapData leaves
ensureBootstrapData(st, build) ==
  LET seed == build.seed
      alreadySeeded == st.cursor = CursorValue(build.version, FALSE)
  IN IF alreadySeeded /\ hasActiveGoldenPairs(st.pairs) THEN st
     ELSE IF SeedValid(seed)
     THEN LET created == AssetCreateMany(st.assets, seed.assets, SeedAssetRow)
              assetIds == seed.assets \cap DOMAIN created
              pairRows == PairCreateMany(st.pairs,
                            {SeedPairRow(sp, assetIds) : sp \in seed.pairs} \ {NoRow})
          IN [assets |-> DeactivateNonGoldenAssets(created),
              pairs |-> PairDeactivate(pairRows, NonGoldenPairIds(pairRows)),
              cursor |-> CursorValue(build.version, FALSE)]
     ELSE IF CountActivePairs(st.pairs) = 0
     THEN LET created == AssetCreateMany(st.assets, DEFAULT_ASSETS, DefaultAssetRow)
              assetIds == DEFAULT_ASSETS \cap DOMAIN created
          IN [assets |-> created,
              pairs |-> PairCreateMany(st.pairs,
                          {SeedPairRow(sp, assetIds) : sp \in DEFAULT_PAIRS} \ {NoRow}),
              cursor |-> CursorValue(build.version, TRUE)]
     ELSE [st EXCEPT !.cursor = CursorValue(build.version, TRUE)]

\* the store after each of the first i releases ran ensureBootstrapData once
RECURSIVE StoreAfter(_)
StoreAfter(i) ==
  IF i = 0 THEN [assets |-> EmptyRows, pairs |-> EmptyRows, cursor |-> NoRow]
  ELSE ensureBootstrapData(StoreAfter(i - 1), Releases[i])
StoreHistory == [i \in 0..Len(Releases) |-> StoreAfter(i)]

\* -------------------------------------- votes on a catalog that is reseeded
\* the first default pair, votable while the fallback catalog is active
DefaultPairVoted == canonicalPairKey(<<P(1)>>, <<P(2)>>)

\* the first release has run on an empty store and left the fallback catalog
InitHistory ==
  /\ assets = StoreHistory[1].assets
  /\ pairs = StoreHistory[1].pairs
  /\ scores = EmptyRows
  /\ voters = EmptyRows
  /\ voteEvents = <<>>
  /\ cursor = StoreHistory[1].cursor
  /\ clock = 0
  /\ vreq = [r \in VoteReqs |-> IdleVote]
  /\ commitOrder = <<>>
  /\ deploy = 1
  /\ redeploys = 0
  /\ greq = [g \in GetReqs |-> IdleGet]
  /\ lib = NoRow

\* one request for a matchup runs next to the votes
HistoryGets == {1}

NextHistory ==
  \/ \E r \in VoteReqs :
       /\ VoteLookup(r)
       /\ vreq'[r].pairId = DefaultPairVoted
       /\ vreq'[r].selectedSide \in {"LEFT", "RIGHT"}
       /\ UNCHANGED catVars
  \/ \E r \in VoteReqs : TxVoterUpsert(r) /\ UNCHANGED catVars
  \/ \E r \in VoteReqs : TxReadScores(r) /\ UNCHANGED catVars
  \/ \E r \in VoteReqs : TxScoreUpsert(r) /\ UNCHANGED catVars
  \/ \E r \in VoteReqs : TxCommit(r) /\ UNCHANGED catVars
  \/ \E r \in VoteReqs : TxFail(r) /\ UNCHANGED catVars
  \/ \E g \in HistoryGets, v \in GetVisitors : GetStart(g, v, NoKey)
  \/ \E g \in HistoryGets : BootSeedAssets(g)
  \/ \E g \in HistoryGets : BootFindAssets(g)
  \/ \E g \in HistoryGets : BootSeedPairs(g)
  \/ \E g \in HistoryGets : BootDeactivateAssets(g)
  \/ \E g \in HistoryGets : BootReadPairs(g)
  \/ \E g \in HistoryGets : BootDeactivatePairs(g)
  \/ \E g \in HistoryGets : BootCursorSeeded(g)
  \/ \E g \in HistoryGets : BootCountActive(g)
  \/ \E g \in HistoryGets : BootCursorFallback(g)
  \/ Redeploy

SpecHistory == InitHistory /\ [][NextHistory]_vars

\* the VoteEvent rows of the committed votes, in commit order
ReplayEvents(order) == [i \in 1..Len(order) |-> vreq[order[i]].wEvent]

C11_State ==
  /\ scores = ReplayScores(commitOrder, EmptyRows)
  /\ voteEvents = ReplayEvents(commitOrder)

C11_Step ==
  /\ DOMAIN assets \subseteq DOMAIN assets'
  /\ DOMAIN pairs \subseteq DOMAIN pairs'
  /\ DOMAIN scores \subseteq DOMAIN scores'
  /\ Len(voteEvents) <= Len(voteEvents')
  /\ (\E g \in GetReqs : greq'[g] # greq[g]) => (scores' = scores /\ voteEvents' = voteEvents)

\* C11: no step of an ensureBootstrapData run removes an Asset, VotingPair,
\* AssetScore or VoteEvent row or changes an AssetScore or VoteEvent row: the
\* score rows and the vote log are at every moment those the committed votes
\* wrote, also after the assets they are about were deactivated.
C11_BootstrapKeepsHistory == []C11_State /\ [][C11_Step]_vars

\* a run seeded the catalog and deactivated an asset that has a score row and
\* a vote event
C11_Witness ==
  /\ \E g \in GetReqs : greq[g].bootOutcome = "seeded"
  /\ \E a \in DOMAIN scores :
       /\ ~assets[a].active
       /\ \E i \in DOMAIN voteEvents :
            voteEvents[i].leftAssetId = a \/ voteEvents[i].rightAssetId = a


\* --------------------------- two runs of ensureBootstrapData on one build
\* the earlier releases have each run once; requests of one later build arrive
InitBootRace ==
  /\ deploy \in DOMAIN Releases
  /\ assets = StoreHistory[deploy - 1].assets
  /\ pairs = StoreHistory[deploy - 1].pairs
  /\ scores = EmptyRows
  /\ voters = EmptyRows
  /\ voteEvents = <<>>
  /\ cursor = StoreHistory[deploy - 1].cursor
  /\ clock = 0
  /\ vreq = [r \in VoteReqs |-> IdleVote]
  /\ commitOrder = <<>>
  /\ redeploys = 0
  /\ greq = [g \in GetReqs |-> IdleGet]
  /\ lib = NoRow

NextBootRace ==
  \/ \E g \in GetReqs, v \in GetVisitors : GetStart(g, v, NoKey)
  \/ \E g \in GetReqs : BootHasActiveGolden(g)
  \/ \E g \in GetReqs : BootSeedAssets(g)
  \/ \E g \in GetReqs : BootFindAssets(g)
  \/ \E g \in GetReqs : BootSeedPairs(g)
  \/ \E g \in GetReqs : BootDeactivateAssets(g)
  \/ \E g \in GetReqs : BootReadPairs(g)
  \/ \E g \in GetReqs : BootDeactivatePairs(g)
  \/ \E g \in GetReqs : BootCursorSeeded(g)
  \/ \E g \in GetReqs : BootCountActive(g)
  \/ \E g \in GetReqs : FallbackAssets(g)
  \/ \E g \in GetReqs : FallbackFindAssets(g)
  \/ \E g \in GetReqs : FallbackPairs(g)
  \/ \E g \in GetReqs : BootCursorFallback(g)

SpecBootRace == InitBootRace /\ [][NextBootRace]_vars

\* no run of ensureBootstrapData is under way and at least one has ended
BootRunsEnded ==
  /\ \A g \in GetReqs : greq[g].pc \in {"idle", "voter"}
  /\ \E g \in GetReqs : greq[g].pc = "voter"

\* C12: once the runs of ensureBootstrapData on one build have ended, one run
\* or two runs interleaved in any order, the asset rows, the pair rows, their
\* active flags and the cursor are those a single run leaves, and every pair
\* row sits under its own key (no key twice).
C12_RunsConverge ==
  BootRunsEnded =>
    /\ assets = StoreHistory[deploy].assets
    /\ pairs = StoreHistory[deploy].pairs
    /\ cursor = StoreHistory[deploy].cursor
    /\ \A k \in DOMAIN pairs : pairs[k].pairKey = k

\* two runs that both wrote (neither took the early return) have ended, on a
\* store that holds rows
C12_Witness ==
  /\ \A g \in GetReqs : greq[g].pc = "voter" /\ greq[g].bootOutcome \in {"seeded", "fallback"}
  /\ \E g \in GetReqs : greq[g].bootOutcome = "seeded"
  /\ \E k \in DOMAIN assets : ~assets[k].active
  /\ pairs # EmptyRows


AlreadySeeded == cursor = CursorValue(Releases[deploy].version, FALSE)
SomeActivePair == \E k \in DOMAIN pairs : pairs[k].active

C13_Step ==
  \A g \in GetReqs :
    /\ (greq[g].pc = "idle" /\ greq'[g].pc # "idle" /\ AlreadySeeded /\ SomeActivePair) =>
         (greq'[g].pc = "hasGolden" /\ storeVars' = storeVars)
    /\ (greq[g].pc = "hasGolden" /\ greq'[g] # greq[g] /\ SomeActivePair) =>
         /\ greq'[g].pc = "voter"
         /\ greq'[g].bootOutcome = "skipped"
         /\ storeVars' = storeVars

\* C13: a call of ensureBootstrapData that reads a cursor equal to its build's
\* seed version while an active matchup exists returns without a write: its
\* two reads leave the asset rows, the pair rows, their active flags and the
\* cursor as they were, and the call ends there.
C13_SeededRunWritesNothing == [][C13_Step]_vars

\* a call took the early return on a seeded store with an active matchup
C13_Witness ==
  /\ \E g \in GetReqs : greq[g].pc = "voter" /\ greq[g].bootOutcome = "skipped"
  /\ AlreadySeeded
  /\ SomeActivePair


\* ------------------------------------------------------- lib/tx-retry.ts
RETRYABLE_ERROR_CODE == "P2034"
DEFAULT_BASE_DELAY_MS == 25
DEFAULT_MAX_DELAY_MS == 250

\* the largest maxRetries a caller passes
MaxRetriesOption == 2
\* an option of SerializableRetryOptions: <<>> when absent, <<n>> when given
NoOption == <<>>
MaxRetriesOptions == {NoOption} \cup {<<n>> : n \in (0 - 1)..MaxRetriesOption}
BaseDelayOptions == {NoOption, <<0>>}
MaxDelayOptions == {NoOption, <<0>>}
\* options.x ?? fallback
OptionOr(option, fallback) == IF option = NoOption THEN fallback ELSE option[1]

\* what client.$transaction can throw: a coded Prisma error or a value that
\* is not an object; thrownBy tells the throws of different attempts apart
TxErrors(attemptNo) ==
  { [object |-> TRUE, code |-> "P2034", thrownBy |-> attemptNo],
    [object |-> TRUE, code |-> "P2002", thrownBy |-> attemptNo],
    [object |-> FALSE, code |-> None, thrownBy |-> attemptNo] }

\* faulty variant: every error counts as a serialization conflict
isRetryableAnyError(error) == TRUE

\* lines 30-34
isRetryableSerializationError(error) == error.object /\ error.code = RETRYABLE_ERROR_CODE

\* faulty variant: the retry budget is never used up
RetryBudgetNeverSpent(attempt, maxRetries) == FALSE

\* line 51: attempt >= maxRetries
RetryBudgetSpent(attempt, maxRetries) == attempt >= maxRetries

\* faulty variant: the transaction runs at the datastore's default level
IsolationLevelDefault == "default"

\* line 48: Prisma.TransactionIsolationLevel.Serializable
IsolationLevelOfAttempt == "Serializable"

RECURSIVE Pow2(_)
Pow2(n) == IF n = 0 THEN 1 ELSE 2 * Pow2(n - 1)

\* lines 55-57, raw being Math.random() as a multiple of 1 / RngScale
BackoffDelayMs(baseDelayMs, maxDelayMs, attempt, raw) ==
  LET exponential == baseDelayMs * Pow2(attempt)
      jitter == IF baseDelayMs > 0 THEN (raw * baseDelayMs) \div RngScale ELSE 0
  IN Min(maxDelayMs, exponential + jitter)

IdleRetry ==
  [pc |-> "idle", maxRetries |-> 0, baseDelayMs |-> 0, maxDelayMs |-> 0, attempt |-> 0,
   calls |-> <<>>, errors |-> <<>>, sleeps |-> <<>>, value |-> 0, error |-> NoRow]

\* lines 36-45: the options are normalised and the loop starts
withSerializableRetry(maxRetries, baseDelayMs, maxDelayMs) ==
  /\ lib.pc = "idle"
  /\ lib' = [lib EXCEPT
       !.pc = "tx",
       !.maxRetries = Max(0, OptionOr(maxRetries, DEFAULT_MAX_RETRIES)),
       !.baseDelayMs = Max(0, OptionOr(baseDelayMs, DEFAULT_BASE_DELAY_MS)),
       !.maxDelayMs = Max(Max(0, OptionOr(baseDelayMs, DEFAULT_BASE_DELAY_MS)),
                          OptionOr(maxDelayMs, DEFAULT_MAX_DELAY_MS))]
  /\ UNCHANGED <<storeVars, clock, vreq, commitOrder, deploy, redeploys, greq>>

\* line 47: client.$transaction resolves and the value is returned; the value
\* of the k-th run is k
RetryTxResolves ==
  /\ lib.pc = "tx"
  /\ lib' = [lib EXCEPT !.pc = "resolved",
                        !.calls = Append(lib.calls, IsolationLevelOfAttempt),
                        !.value = Len(lib.calls) + 1]
  /\ UNCHANGED <<storeVars, clock, vreq, commitOrder, deploy, redeploys, greq>>

\* lines 47-58: client.$transaction rejects; the catch block rethrows or
\* computes the delay and calls sleep
RetryTxRejects(error, raw) ==
  /\ lib.pc = "tx"
  /\ LET ran == [lib EXCEPT !.calls = Append(lib.calls, IsolationLevelOfAttempt),
                            !.errors = Append(lib.errors, error)]
     IN IF ~isRetryableSerializationError(error) \/ RetryBudgetSpent(lib.attempt, lib.maxRetries)
        THEN lib' = [ran EXCEPT !.pc = "rejected", !.error = error]
        ELSE lib' = [ran EXCEPT
               !.pc = "sleep",
               !.sleeps = Append(lib.sleeps,
                            BackoffDelayMs(lib.baseDelayMs, lib.maxDelayMs, lib.attempt, raw))]
  /\ UNCHANGED <<storeVars, clock, vreq, commitOrder, deploy, redeploys, greq>>

\* lines 23-28 and 45: the sleep ends and the loop goes round
RetrySleepEnds ==
  /\ lib.pc = "sleep"
  /\ lib' = [lib EXCEPT !.pc = "tx", !.attempt = lib.attempt + 1]
  /\ UNCHANGED <<storeVars, clock, vreq, commitOrder, deploy, redeploys, greq>>

InitRetry ==
  /\ assets = EmptyRows
  /\ pairs = EmptyRows
  /\ scores = EmptyRows
  /\ voters = EmptyRows
  /\ voteEvents = <<>>
  /\ cursor = NoRow
  /\ clock = 0
  /\ vreq = <<>>
  /\ commitOrder = <<>>
  /\ deploy = 0
  /\ redeploys = 0
  /\ greq = <<>>
  /\ lib = IdleRetry

NextRetry ==
  \/ \E m \in MaxRetriesOptions, b \in BaseDelayOptions, d \in MaxDelayOptions :
       withSerializableRetry(m, b, d)
  \/ RetryTxResolves
  \/ \E error \in TxErrors(Len(lib.calls) + 1), raw \in RngDraws : RetryTxRejects(error, raw)
  \/ RetrySleepEnds

SpecRetry == InitRetry /\ [][NextRetry]_vars
\* a transaction settles and a timer fires: no step waits for ever
SpecRetryLive == SpecRetry /\ WF_vars(NextRetry)

RetrySettled == lib.pc \in {"resolved", "rejected"}
IsP2034(error) == error.code = "P2034"
AllRetryable(errors) == \A i \in DOMAIN errors : IsP2034(errors[i])

\* C14: the transaction is run at most maxRetries + 1 times whatever the
\* attempts yield; when every attempt fails with P2034 the call rejects after
\* exactly maxRetries + 1 runs with the P2034 error of the last run; and every
\* call settles.
C14_Bounded ==
  /\ Len(lib.calls) <= lib.maxRetries + 1
  /\ (lib.pc = "rejected" /\ AllRetryable(lib.errors)) =>
       /\ Len(lib.calls) = lib.maxRetries + 1
       /\ lib.error = lib.errors[Len(lib.errors)]
       /\ lib.error.code = "P2034"
C14_RetryTerminates == []C14_Bounded /\ ((lib.pc # "idle") ~> RetrySettled)

\* every run failed with P2034, more than one run was made, the call rejected
C14_Witness ==
  /\ lib.pc = "rejected"
  /\ AllRetryable(lib.errors)
  /\ Len(lib.calls) = lib.maxRetries + 1
  /\ lib.maxRetries >= 2


C15_State ==
  \A i \in DOMAIN lib.errors :
    ~IsP2034(lib.errors[i]) =>
      /\ lib.pc = "rejected"
      /\ lib.error = lib.errors[i]
      /\ i = Len(lib.errors)
      /\ Len(lib.calls) = i
      /\ Len(lib.sleeps) = i - 1
C15_Step == lib.pc = "rejected" => lib' = lib

\* C15: a run that fails with an error whose code is not P2034 ends the call
\* there: that very error is the rejection, the failed run is the last run,
\* and the only sleeps are those of the P2034 failures before it, whatever
\* maxRetries is.
C15_OtherErrorRethrown == []C15_State /\ [][C15_Step]_vars

\* a non-P2034 error after two P2034 retries, with retry budget left
C15_Witness ==
  /\ lib.pc = "rejected"
  /\ ~IsP2034(lib.error)
  /\ Len(lib.errors) = 3
  /\ lib.maxRetries >= 3

C16_State ==
  lib.pc = "resolved" =>
    /\ lib.value = Len(lib.calls)
    /\ Len(lib.errors) = Len(lib.calls) - 1
    /\ AllRetryable(lib.errors)
    /\ Len(lib.calls) <= lib.maxRetries + 1
    /\ \A i \in DOMAIN lib.calls : lib.calls[i] = "Serializable"
C16_Step ==
  (lib.pc = "tx" /\ lib' # lib /\ lib'.errors = lib.errors) =>
    (lib'.pc = "resolved" /\ lib'.value = Len(lib.calls) + 1)

\* C16: when the runs before the k-th failed with P2034 and the k-th run
\* succeeds, the call resolves at once with the k-th run's value, after
\* exactly k runs of the transaction, each under Serializable isolation.
C16_ResolvesWithAttemptValue == []C16_State /\ [][C16_Step]_vars

\* the last run the budget allows succeeded after P2034 failures
C16_Witness ==
  /\ lib.pc = "resolved"
  /\ Len(lib.calls) = lib.maxRetries + 1
  /\ Len(lib.calls) >= 3


\* ------------------------------------------- lib/voter.ts as a function
MaxStreak == 8
MaxVoterDays == 3
\* Date values: the ticks of the days 0..MaxVoterDays - 1
VoterDates == 0..(MaxVoterDays * TicksPerDay - 1)
\* Voter rows as POST /api/votes writes them (a vote sets lastVotedAt and a
\* streak of 1 or more), rows never voted with (lastVotedAt null), and no row
VoterInputs ==
  {NoRow}
    \cup [streakDays : 1..MaxStreak, lastVotedAt : VoterDates, xp : {0, 200}, totalVotes : {1, 17}]
    \cup [streakDays : {0}, lastVotedAt : {NoDay}, xp : {0}, totalVotes : {0}]

InitVoter ==
  /\ assets = EmptyRows
  /\ pairs = EmptyRows
  /\ scores = EmptyRows
  /\ voters = EmptyRows
  /\ voteEvents = <<>>
  /\ cursor = NoRow
  /\ clock \in VoterDates
  /\ vreq = <<>>
  /\ commitOrder = <<>>
  /\ deploy = 0
  /\ redeploys = 0
  /\ greq = <<>>
  /\ \E voter \in VoterInputs : lib = [pc |-> "call", voter |-> voter, result |-> NoRow]

\* the call computeStreakAndXp(voter, now), now being the clock
CallComputeStreakAndXp ==
  /\ lib.pc = "call"
  /\ lib' = [lib EXCEPT !.pc = "done", !.result = computeStreakAndXp(lib.voter, clock)]
  /\ UNCHANGED <<storeVars, clock, vreq, commitOrder, deploy, redeploys, greq>>

NextVoter == CallComputeStreakAndXp

SpecVoter == InitVoter /\ [][NextVoter]_vars

UtcDayOf(date) == date \div TicksPerDay
VotedBefore(voter) == voter # NoRow /\ voter.lastVotedAt # NoDay
ExpectedStreak(voter, now) ==
  IF VotedBefore(voter) /\ UtcDayOf(voter.lastVotedAt) = UtcDayOf(now) - 1
  THEN voter.streakDays + 1
  ELSE IF VotedBefore(voter) /\ UtcDayOf(voter.lastVotedAt) = UtcDayOf(now)
  THEN voter.streakDays
  ELSE 1

\* C17: computeStreakAndXp(voter, now) returns streakDays = the previous
\* streakDays + 1 when lastVotedAt lies on the UTC day before now's, the
\* previous streakDays when on now's UTC day, and 1 otherwise (any other gap,
\* no lastVotedAt, no voter); xpGain = 10 + min(streakDays, 7); nextXp = the
\* previous xp + xpGain; nextTotalVotes = the previous totalVotes + 1.
C17_StreakAndXp ==
  lib.pc = "done" =>
    /\ lib.result.streakDays = ExpectedStreak(lib.voter, clock)
    /\ lib.result.xpGain = 10 + Min(lib.result.streakDays, 7)
    /\ lib.result.nextXp = (IF lib.voter = NoRow THEN 0 ELSE lib.voter.xp) + lib.result.xpGain
    /\ lib.result.nextTotalVotes = (IF lib.voter = NoRow THEN 0 ELSE lib.voter.totalVotes) + 1

\* a streak carried on from the day before, past the cap of the bonus, the
\* two dates at different times of their days
C17_Witness ==
  /\ lib.pc = "done"
  /\ VotedBefore(lib.voter)
  /\ UtcDayOf(lib.voter.lastVotedAt) = UtcDayOf(clock) - 1
  /\ clock - lib.voter.lastVotedAt # TicksPerDay
  /\ lib.result.streakDays = lib.voter.streakDays + 1
  /\ lib.result.streakDays > 7
  /\ lib.result.xpGain = 17


\* ---------------------------------------- lib/pair-key.ts as a function
MaxBundleLen == 2
\* the entries of a bundle argument: asset keys and a blank entry
BundleEntries == {G(1), G(2), P(1), NoKey}
BundleInputs == UNION {[1..n -> BundleEntries] : n \in 0..MaxBundleLen}

\* the same entries in another order
Reorderings(s) ==
  {[i \in DOMAIN s |-> s[p[i]]] :
     p \in {q \in [DOMAIN s -> DOMAIN s] : \A i, j \in DOMAIN s : q[i] = q[j] => i = j}}

InitPairKey ==
  /\ assets = EmptyRows
  /\ pairs = EmptyRows
  /\ scores = EmptyRows
  /\ voters = EmptyRows
  /\ voteEvents = <<>>
  /\ cursor = NoRow
  /\ clock = 0
  /\ vreq = <<>>
  /\ commitOrder = <<>>
  /\ deploy = 0
  /\ redeploys = 0
  /\ greq = <<>>
  /\ \E a \in BundleInputs, b \in BundleInputs :
       lib = [pc |-> "call", a |-> a, b |-> b, key |-> NoKey,
              a2 |-> <<>>, b2 |-> <<>>, key2 |-> NoKey]

\* canonicalPairKey(a, b)
CallCanonicalPairKey ==
  /\ lib.pc = "call"
  /\ lib' = [lib EXCEPT !.pc = "again", !.key = canonicalPairKey(lib.a, lib.b)]
  /\ UNCHANGED <<storeVars, clock, vreq, commitOrder, deploy, redeploys, greq>>

\* a second call with the same two bundles: their entries in another order,
\* the bundles swapped or not
CallCanonicalPairKeyAgain ==
  /\ lib.pc = "again"
  /\ \E a2 \in Reorderings(lib.a), b2 \in Reorderings(lib.b), swap \in BOOLEAN :
       LET x == IF swap THEN b2 ELSE a2
           y == IF swap THEN a2 ELSE b2
       IN lib' = [lib EXCEPT !.pc = "done", !.a2 = x, !.b2 = y, !.key2 = canonicalPairKey(x, y)]
  /\ UNCHANGED <<storeVars, clock, vreq, commitOrder, deploy, redeploys, greq>>

NextPairKey == CallCanonicalPairKey \/ CallCanonicalPairKeyAgain

SpecPairKey == InitPairKey /\ [][NextPairKey]_vars

\* C18: canonicalPairKey gives the same key for (A, B) and (B, A), and the
\* same key when the members of A or of B are given in another order.
C18_PairKeySymmetric == lib.pc = "done" => lib.key2 = lib.key

\* two different bundles of two members each, swapped and both reordered
C18_Witness ==
  /\ lib.pc = "done"
  /\ Len(lib.key[1]) = 2 /\ Len(lib.key[2]) = 2
  /\ lib.key[1] # lib.key[2]
  /\ lib.a2[1] \in SeqToSet(lib.b) /\ lib.a2[1] \notin SeqToSet(lib.a)
  /\ lib.a2 \notin {lib.a, lib.b}
  /\ lib.b2 \notin {lib.a, lib.b}


\* --------------------------------------------- lib/elo.ts as a function
MaxPollVotes == 3
MaxSideSize == 2
\* ratings as the store holds them: finite, in hundredths of a point
RatingInputs == {1400 * EloUnit, DefaultElo, 1612 * EloUnit + 34}
\* vote counts of a poll, and the minVotes option (1 when left out)
PollVoteCounts == 0..MaxPollVotes
MinVotesInputs == {0, 1, 2, 5}
SideInputs == UNION {[1..n -> RatingInputs] : n \in 0..MaxSideSize}

InitElo ==
  /\ assets = EmptyRows
  /\ pairs = EmptyRows
  /\ scores = EmptyRows
  /\ voters = EmptyRows
  /\ voteEvents = <<>>
  /\ cursor = NoRow
  /\ clock = 0
  /\ vreq = <<>>
  /\ commitOrder = <<>>
  /\ deploy = 0
  /\ redeploys = 0
  /\ greq = <<>>
  /\ \E bundles \in BOOLEAN, leftScores \in SideInputs, rightScores \in SideInputs,
        votesLeft \in PollVoteCounts, votesRight \in PollVoteCounts, minVotes \in MinVotesInputs :
       /\ ~bundles => (Len(leftScores) = 1 /\ Len(rightScores) = 1)
       /\ lib = [pc |-> "call", bundles |-> bundles,
                 leftScores |-> leftScores, rightScores |-> rightScores,
                 votesLeft |-> votesLeft, votesRight |-> votesRight, minVotes |-> minVotes,
                 update |-> NoRow]

\* applyEloFromVotes({leftScore, rightScore, votesLeft, votesRight, minVotes})
CallApplyEloFromVotes ==
  /\ lib.pc = "call" /\ ~lib.bundles
  /\ lib' = [lib EXCEPT !.pc = "done",
               !.update = applyEloFromVotes(lib.leftScores[1], lib.rightScores[1],
                                            lib.votesLeft, lib.votesRight, lib.minVotes)]
  /\ UNCHANGED <<storeVars, clock, vreq, commitOrder, deploy, redeploys, greq>>

\* applyEloFromVotesBundles({leftScores, rightScores, votesLeft, votesRight, minVotes})
CallApplyEloFromVotesBundles ==
  /\ lib.pc = "call" /\ lib.bundles
  /\ lib' = [lib EXCEPT !.pc = "done",
               !.update = applyEloFromVotesBundles(lib.leftScores, lib.rightScores,
                                                   lib.votesLeft, lib.votesRight, lib.minVotes)]
  /\ UNCHANGED <<storeVars, clock, vreq, commitOrder, deploy, redeploys, greq>>

NextElo == CallApplyEloFromVotes \/ CallApplyEloFromVotesBundles

SpecElo == InitElo /\ [][NextElo]_vars

SameRatings(given, returned) ==
  /\ given # <<>> => Len(returned) = Len(given)
  /\ \A i \in DOMAIN given : returned[i] = given[i]

Limb == 2 ^ 16
\* (a * s + c) >>> 0 for a = aHi * 2^16 + aLo and c = cHi * 2^16 + cLo
MulAdd32(s, aHi, aLo, cHi, cLo) ==
  LET loFull == aLo * s[2] + cLo
      hiFull == aHi * s[2] + aLo * s[1] + cHi + loFull \div Limb
  IN <<hiFull % Limb, loFull % Limb>>

\* lines 278-284; text is the sequence of the char codes of the string
RECURSIVE HashFrom(_, _)
HashFrom(hash, text) ==
  LET next == MulAdd32(hash, 0, 31, 0, Head(text))
  IN IF text = <<>> THEN hash
     ELSE IF next = <<0, 0>> THEN HashFrom(<<0, 0>>, Tail(text))
     ELSE HashFrom(next, Tail(text))
stringHash(value) == HashFrom(<<0, 0>>, value)

\* faulty variant: the generator is seeded from the wall clock
createSeededRngFromClock(seedValue) == <<clock + 1, clock + 1>>

\* lines 286-287: the first state of the generator, (seedValue >>> 0) || 1
createSeededRng(seedValue) == IF seedValue = <<0, 0>> THEN <<0, 1>> ELSE seedValue

\* line 289: state = (1664525 * state + 1013904223) >>> 0
RngNext(state) == MulAdd32(state, 25, 26125, 15470, 62303)

\* line 311: Math.floor(Math.abs(state / 4294967296) * n) % n
RngIndex(state, n) == ((state[1] * n + (state[2] * n) \div Limb) \div Limb) % n

\* the text of an asset key ("Ga", "Gb", ... and "Pa", ...), of a bundle key
\* and of a pair key, as char codes
KeyText(key) == <<IF key[1] = GOLDEN_PREFIX THEN 71 ELSE 80, 96 + key[2]>>
RECURSIVE JoinText(_, _)
JoinText(texts, sep) ==
  IF texts = <<>> THEN <<>>
  ELSE IF Len(texts) = 1 THEN texts[1]
  ELSE texts[1] \o sep \o JoinText(Tail(texts), sep)
BundleText(bundle) == JoinText([i \in DOMAIN bundle |-> KeyText(bundle[i])], <<32, 43, 32>>)
PairKeyText(pairKey) == JoinText(<<BundleText(pairKey[1]), BundleText(pairKey[2])>>, <<58, 58>>)

PROMPT_TEMPLATES == 6
\* lines 294-297: the index of the prompt in PROMPT_TEMPLATES
buildPrompt(pairKey) ==
  LET h == stringHash(PairKeyText(pairKey))
  IN ((h[1] % PROMPT_TEMPLATES) * (Limb % PROMPT_TEMPLATES) + h[2]) % PROMPT_TEMPLATES

MARKETPOLL_MATCHUP_MODES == <<"1v1", "1v2", "2v1", "2v2">>
\* lines 100-120: the valid modes of the list, in the order of
\* MARKETPOLL_MATCHUP_MODES; all of them when none is valid
normalizeMatchupModes(raw) ==
  LET normalized == SeqToSet(raw) \cap SeqToSet(MARKETPOLL_MATCHUP_MODES)
  IN IF normalized = {} THEN MARKETPOLL_MATCHUP_MODES
     ELSE SelectSeq(MARKETPOLL_MATCHUP_MODES, LAMBDA m : m \in normalized)

\* lines 354-359
parseModeSizes(mode) ==
  CASE mode = "1v1" -> [leftSize |-> 1, rightSize |-> 1]
    [] mode = "1v2" -> [leftSize |-> 1, rightSize |-> 2]
    [] mode = "2v1" -> [leftSize |-> 2, rightSize |-> 1]
    [] mode = "2v2" -> [leftSize |-> 2, rightSize |-> 2]
ModeText(mode) == <<48 + parseModeSizes(mode).leftSize, 118, 48 + parseModeSizes(mode).rightSize>>

\* lines 14-26: the lower limits of the tiers; amounts are in units of 500x,
\* so that the middle of a range of whole thousands is whole
GOLDMARKET_TIERS == <<2, 10, 20, 40, 80, 200, 400, 1000, 2000, 4000, 6000>>
\* lines 156-167: the tier holding midX, the last tier when none does
tierForMidX(midX) ==
  LET n == Len(GOLDMARKET_TIERS)
      holds == {i \in 1..n : midX >= GOLDMARKET_TIERS[i] /\ (i < n => midX < GOLDMARKET_TIERS[i + 1])}
  IN IF holds = {} THEN n ELSE CHOOSE i \in holds : TRUE

\* Array.prototype.sort with a comparator: a stable sort; an element comes
\* after those that are less and after the earlier ones it is not less than
StableSort(s, Less(_, _)) ==
  LET rank(i) == 1 + Cardinality({j \in DOMAIN s :
                                    Less(s[j], s[i]) \/ (j < i /\ ~Less(s[i], s[j]))})
  IN [r \in DOMAIN s |-> s[CHOOSE i \in DOMAIN s : rank(i) = r]]

\* lines 6-12: the multiplier of a unit, NoMultiplier for a unit not listed
NoMultiplier == 0
RATE_MULTIPLIERS(unit) ==
  CASE unit = "x" -> 1
    [] unit \in {"k", "kx"} -> 1000
    [] unit \in {"m", "mx"} -> 1000000
    [] OTHER -> NoMultiplier

\* a rate token is [amount, unit]: the number it starts with, NoAmount when
\* the text is not a number followed by letters, and the letters after it
NoAmount == 0 - 1
\* amount * multiplier in units of 500x; the amounts used are whole thousands of x
ValueX(amount, multiplier) == (amount * multiplier) \div 500
RateResult(ok, needsUnit, valueX, multiplier) ==
  [ok |-> ok, needsUnit |-> needsUnit, valueX |-> valueX, multiplier |-> multiplier]

\* lines 178-204; fallbackMultiplier is NoMultiplier for null
parseRateToken(raw, fallbackMultiplier) ==
  IF raw.amount = NoAmount THEN RateResult(FALSE, FALSE, 0, NoMultiplier)
  ELSE IF raw.unit = ""
  THEN IF fallbackMultiplier = NoMultiplier THEN RateResult(FALSE, TRUE, 0, NoMultiplier)
       ELSE RateResult(TRUE, FALSE, ValueX(raw.amount, fallbackMultiplier), fallbackMultiplier)
  ELSE IF RATE_MULTIPLIERS(raw.unit) = NoMultiplier THEN RateResult(FALSE, FALSE, 0, NoMultiplier)
  ELSE RateResult(TRUE, FALSE, ValueX(raw.amount, RATE_MULTIPLIERS(raw.unit)), RATE_MULTIPLIERS(raw.unit))

RangeError == [ok |-> FALSE, minX |-> 0, maxX |-> 0, midX |-> 0, tierIndex |-> 0]
RangeOf(minX, maxX) ==
  [ok |-> TRUE, minX |-> minX, maxX |-> maxX, midX |-> (minX + maxX) \div 2,
   tierIndex |-> tierForMidX((minX + maxX) \div 2)]

\* faulty variant: a range given as max-min is put in order
RangeFromTokensSwapping(left, right) ==
  IF ~left.ok \/ ~right.ok THEN RangeError
  ELSE IF left.valueX > right.valueX THEN RangeOf(right.valueX, left.valueX)
  ELSE RangeOf(left.valueX, right.valueX)

\* lines 253-264: the range of two parsed tokens
RangeFromTokens(left, right) ==
  IF ~left.ok \/ ~right.ok THEN RangeError
  ELSE IF left.valueX > right.valueX THEN RangeError
  ELSE RangeOf(left.valueX, right.valueX)

\* lines 206-265; rawRange is the sequence of the tokens between the dashes
\* of the range text, the empty sequence for an empty text
parseSeedRange(rawRange) ==
  LET both(left, right) == RangeFromTokens(left, right)
      rightFilled(left, right) ==
        both(left, IF right.needsUnit THEN parseRateToken(rawRange[2], left.multiplier) ELSE right)
      filled(left, right) ==
        IF left.needsUnit /\ right.needsUnit
        THEN both(parseRateToken(rawRange[1], 1), parseRateToken(rawRange[2], 1))
        ELSE rightFilled(IF left.needsUnit THEN parseRateToken(rawRange[1], right.multiplier)
                         ELSE left, right)
      two(left, right) ==
        IF ~left.ok /\ ~left.needsUnit THEN RangeError
        ELSE IF ~right.ok /\ ~right.needsUnit THEN RangeError
        ELSE filled(left, right)
      one(single) == IF ~single.ok THEN RangeError ELSE RangeOf(single.valueX, single.valueX)
  IN IF Len(rawRange) < 1 \/ Len(rawRange) > 2 THEN RangeError
     ELSE IF Len(rawRange) = 1 THEN one(parseRateToken(rawRange[1], 1))
     ELSE two(parseRateToken(rawRange[1], NoMultiplier), parseRateToken(rawRange[2], NoMultiplier))

\* an entry of errors: the number of the line and what was wrong with it
SeedError(lineNo, error) == [lineNo |-> lineNo, error |-> error]

\* lines 513-561: the loop over the lines of the seed text from line i on. A
\* line is [cols, assetKey, seedRangeRaw]: cols is the number of its columns,
\* 0 for a blank line, a comment or the header; assetKey is NoKey for an
\* empty first column
RECURSIVE ParseLines(_, _, _, _, _)
ParseLines(lines, i, seen, parsed, errors) ==
  IF i > Len(lines) THEN [assets |-> parsed, errors |-> errors]
  ELSE IF lines[i].cols = 0 THEN ParseLines(lines, i + 1, seen, parsed, errors)
  ELSE IF lines[i].cols < 2
  THEN ParseLines(lines, i + 1, seen, parsed,
                  Append(errors, SeedError(i, "expected asset_key,seed_range")))
  ELSE IF lines[i].assetKey = NoKey
  THEN ParseLines(lines, i + 1, seen, parsed, Append(errors, SeedError(i, "invalid asset key")))
  ELSE IF lines[i].seedRangeRaw = <<>> THEN ParseLines(lines, i + 1, seen, parsed, errors)
  ELSE IF lines[i].assetKey \in seen
  THEN ParseLines(lines, i + 1, seen, parsed, Append(errors, SeedError(i, "duplicate asset key")))
  ELSE IF ~parseSeedRange(lines[i].seedRangeRaw).ok
  THEN ParseLines(lines, i + 1, seen \cup {lines[i].assetKey}, parsed,
                  Append(errors, SeedError(i, "invalid range")))
  ELSE ParseLines(lines, i + 1, seen \cup {lines[i].assetKey},
         Append(parsed,
           [assetKey |-> lines[i].assetKey,
            seedRangeRaw |-> lines[i].seedRangeRaw,
            minX |-> parseSeedRange(lines[i].seedRangeRaw).minX,
            maxX |-> parseSeedRange(lines[i].seedRangeRaw).maxX,
            midX |-> parseSeedRange(lines[i].seedRangeRaw).midX,
            tierIndex |-> parseSeedRange(lines[i].seedRangeRaw).tierIndex]),
         errors)

\* line 267-269
rangesOverlap(minA, maxA, minB, maxB) == Min(maxA, maxB) > Max(minA, minB)

\* faulty variant: sides one tier apart are compatible whatever their ranges
isBundleCompatibleByTierOnly(left, right) ==
  LET tierDiff == Max(left.tierIndex - right.tierIndex, right.tierIndex - left.tierIndex)
  IN ~(tierDiff > 1)

\* lines 271-276
isBundleCompatible(left, right) ==
  LET tierDiff == Max(left.tierIndex - right.tierIndex, right.tierIndex - left.tierIndex)
  IN /\ ~(tierDiff > 1)
     /\ ~(tierDiff = 1 /\ ~rangesOverlap(left.minX, left.maxX, right.minX, right.maxX))

\* lines 328-352; keys are keys of the assets given
bundleFromKeys(keys, parsed) ==
  LET bundle(ordered, members, midX) ==
        [assetKeys |-> ordered,
         minX |-> SeqSum([i \in DOMAIN members |-> members[i].minX]),
         maxX |-> SeqSum([i \in DOMAIN members |-> members[i].maxX]),
         midX |-> midX,
         tierIndex |-> tierForMidX(midX),
         assets |-> members]
      summed(ordered, members) ==
        bundle(ordered, members, SeqSum([i \in DOMAIN members |-> members[i].midX]))
      found(ordered) ==
        summed(ordered,
               [i \in DOMAIN ordered |->
                  parsed[CHOOSE j \in DOMAIN parsed : parsed[j].assetKey = ordered[i]]])
  IN found(SortKeys(SeqToSet(keys)))

\* a candidate: closeness is kept as the fraction closeNum / closeDen
CandidatePair(left, right, mode) ==
  [leftKeys |-> left.assetKeys, rightKeys |-> right.assetKeys, matchupMode |-> mode,
   pairKey |-> canonicalPairKey(left.assetKeys, right.assetKeys),
   closeNum |-> Max(left.midX - right.midX, right.midX - left.midX),
   closeDen |-> Max(Max(left.midX, right.midX), 1),
   combinedMid |-> left.midX + right.midX]

\* (a, b) => a.closeness - b.closeness || b.combinedMid - a.combinedMid, < 0
CandidateLess(a, b) ==
  \/ a.closeNum * b.closeDen < b.closeNum * a.closeDen
  \/ a.closeNum * b.closeDen = b.closeNum * a.closeDen /\ b.combinedMid < a.combinedMid

\* slice(0, count)
FirstOf(s, count) == SubSeq(s, 1, Min(Len(s), count))

\* line 412: by midX, then by asset key
AssetLess(a, b) == a.midX < b.midX \/ (a.midX = b.midX /\ KeyLess(a.assetKey, b.assetKey))

PAIR_NEIGHBOR_WINDOW == 8
MIN_PAIRS_PER_ASSET == 2
MAX_GENERATED_PAIRS_1V1 == 1600

\* lines 418-438: addCandidate on the candidates so far; a and b are the
\* bundles of one asset each
addCandidate(candidates, a, b) ==
  IF ~isBundleCompatible(a, b) THEN candidates
  ELSE IF \E k \in DOMAIN candidates :
            candidates[k].pairKey = canonicalPairKey(a.assetKeys, b.assetKeys)
  THEN candidates
  ELSE Append(candidates, CandidatePair(a, b, "1v1"))

\* counts.get(assetKey) || 0
PairCountOf(candidates, assetKey) ==
  Cardinality({k \in DOMAIN candidates :
                 assetKey \in {candidates[k].leftKeys[1], candidates[k].rightKeys[1]}})

\* lines 454-465: the neighbours of asset i at distance delta and beyond
RECURSIVE CoverDeltas(_, _, _, _)
CoverDeltas(one, candidates, i, delta) ==
  LET covered(list) == PairCountOf(list, one[i].assetKeys[1]) >= MIN_PAIRS_PER_ASSET
      afterRight(list) ==
        IF covered(list) THEN list
        ELSE IF i - delta < 1 /\ i + delta > Len(one) THEN list
        ELSE CoverDeltas(one, list, i, delta + 1)
      afterLeft(list) ==
        IF covered(list) THEN list
        ELSE afterRight(IF i + delta <= Len(one) THEN addCandidate(list, one[i], one[i + delta])
                        ELSE list)
  IN IF delta < Len(one) /\ Len(candidates) < MAX_GENERATED_PAIRS_1V1
     THEN afterLeft(IF i - delta >= 1 THEN addCandidate(candidates, one[i], one[i - delta])
                    ELSE candidates)
     ELSE candidates

\* lines 450-466: the assets from i on that have fewer than
\* MIN_PAIRS_PER_ASSET candidates
RECURSIVE CoverAssets(_, _, _)
CoverAssets(one, candidates, i) ==
  IF i > Len(one) THEN candidates
  ELSE IF PairCountOf(candidates, one[i].assetKeys[1]) >= MIN_PAIRS_PER_ASSET
  THEN CoverAssets(one, candidates, i + 1)
  ELSE CoverAssets(one, CoverDeltas(one, candidates, i, 1), i + 1)

\* lines 411-471: the pairs of neighbours within PAIR_NEIGHBOR_WINDOW in the
\* order of midX (lines 440-448; no pair is tried twice there), then the
\* pairs of lines 450-466 for the assets left with too few
buildOneVsOneCandidates(parsed) ==
  LET slots(n) == [k \in 1..(n * n) |-> <<((k - 1) \div n) + 1, ((k - 1) % n) + 1>>]
      tried(n) == SelectSeq(slots(n),
                    LAMBDA x : x[1] < x[2] /\ x[2] <= x[1] + PAIR_NEIGHBOR_WINDOW)
      kept(one, pairsTried) ==
        SelectSeq(pairsTried, LAMBDA x : isBundleCompatible(one[x[1]], one[x[2]]))
      paired(one, pairsKept) ==
        [k \in DOMAIN pairsKept |->
           CandidatePair(one[pairsKept[k][1]], one[pairsKept[k][2]], "1v1")]
      candidates(one) ==
        CoverAssets(one, FirstOf(paired(one, kept(one, tried(Len(one)))), MAX_GENERATED_PAIRS_1V1), 1)
      bundles(sorted) == [i \in DOMAIN sorted |-> bundleFromKeys(<<sorted[i].assetKey>>, sorted)]
  IN FirstOf(StableSort(candidates(bundles(StableSort(parsed, AssetLess))), CandidateLess),
             MAX_GENERATED_PAIRS_1V1)

\* lines 308-314: the draws of sampleUniqueAssetKeys
RECURSIVE SampleDraws(_, _, _, _, _)
SampleDraws(pool, need, chosen, guard, state) ==
  IF Cardinality(chosen) < need /\ guard < need * 30
  THEN LET next == RngNext(state)
       IN SampleDraws(pool, need, chosen \cup {pool[RngIndex(next, Len(pool)) + 1]}, guard + 1, next)
  ELSE [chosen |-> chosen, state |-> state]


\* lines 299-326: the keys sampled, or ok = FALSE for null, and the state the
\* generator is left in
sampleUniqueAssetKeys(keys, count, state, blocked) ==
  LET need == Max(1, count)
      filled(chosen, rest) == chosen \cup {rest[i] : i \in 1..(need - Cardinality(chosen))}
      sampled(pool, drawn) ==
        [ok |-> TRUE,
         keys |-> SortKeys(filled(drawn.chosen,
                                  SelectSeq(pool, LAMBDA k : k \notin drawn.chosen))),
         state |-> drawn.state]
      from(pool) == IF Len(pool) < need THEN [ok |-> FALSE, keys |-> <<>>, state |-> state]
                    ELSE sampled(pool, SampleDraws(pool, need, {}, 0, state))
  IN from(SelectSeq(keys, LAMBDA k : k \notin blocked))

\* the rounds of sampling made for one mode; MAX_MULTI_ATTEMPTS is 120000
MaxMultiAttempts == 6
MAX_GENERATED_PAIRS_PER_MULTI_MODE == 500
MAX_ASSET_TIER_SPREAD == 3

\* lines 369-405: the loop of buildMultiModeCandidates from one attempt on
RECURSIVE MultiAttempts(_, _, _, _, _, _, _)
MultiAttempts(parsed, allKeys, mode, targetCount, attempt, state, out) ==
  LET spread(tierIndexes) == (CHOOSE x \in tierIndexes : \A y \in tierIndexes : y <= x)
                               - (CHOOSE x \in tierIndexes : \A y \in tierIndexes : y >= x)
      keep(left, right, candidate) ==
        /\ ~(spread({left.assets[i].tierIndex : i \in DOMAIN left.assets}
                     \cup {right.assets[i].tierIndex : i \in DOMAIN right.assets})
               > MAX_ASSET_TIER_SPREAD)
        /\ isBundleCompatible(left, right)
        /\ \A i \in DOMAIN out : out[i].pairKey # candidate.pairKey
      added(left, right, candidate) ==
        IF keep(left, right, candidate) THEN Append(out, candidate) ELSE out
      bundled(left, right) == added(left, right, CandidatePair(left, right, mode))
      withRight(leftKeys, rightKeys) ==
        IF ~rightKeys.ok
        THEN MultiAttempts(parsed, allKeys, mode, targetCount, attempt + 1, rightKeys.state, out)
        ELSE MultiAttempts(parsed, allKeys, mode, targetCount, attempt + 1, rightKeys.state,
                           bundled(bundleFromKeys(leftKeys.keys, parsed),
                                   bundleFromKeys(rightKeys.keys, parsed)))
      withLeft(leftKeys) ==
        IF ~leftKeys.ok
        THEN MultiAttempts(parsed, allKeys, mode, targetCount, attempt + 1, leftKeys.state, out)
        ELSE withRight(leftKeys,
                       sampleUniqueAssetKeys(allKeys, parseModeSizes(mode).rightSize,
                                             leftKeys.state, SeqToSet(leftKeys.keys)))
  IN IF ~(attempt < MaxMultiAttempts /\ Len(out) < targetCount) THEN out
     ELSE withLeft(sampleUniqueAssetKeys(allKeys, parseModeSizes(mode).leftSize, state, {}))

\* lines 360-409
buildMultiModeCandidates(parsed, mode, targetCount) ==
  LET seedText(allKeys) ==
        ModeText(mode) \o <<58>>
          \o JoinText([i \in DOMAIN allKeys |-> KeyText(allKeys[i])], <<124>>)
      sampled(allKeys) ==
        MultiAttempts(parsed, allKeys, mode, targetCount, 0,
                      createSeededRng(stringHash(seedText(allKeys))), <<>>)
  IN FirstOf(StableSort(sampled([i \in DOMAIN parsed |-> parsed[i].assetKey]), CandidateLess),
             targetCount)

\* lines 485-492: the candidates of the team modes, those with a new pair key
RECURSIVE AddMultiModes(_, _, _)
AddMultiModes(modes, parsed, deduped) ==
  IF modes = <<>> THEN deduped
  ELSE IF Head(modes) = "1v1" THEN AddMultiModes(Tail(modes), parsed, deduped)
  ELSE LET found == buildMultiModeCandidates(parsed, Head(modes), MAX_GENERATED_PAIRS_PER_MULTI_MODE)
           fresh == SelectSeq(found,
                      LAMBDA c : \A i \in DOMAIN deduped : deduped[i].pairKey # c.pairKey)
       IN AddMultiModes(Tail(modes), parsed, deduped \o fresh)

\* lines 473-503
generatePairs(parsed, matchupModes) ==
  LET oneVsOne(modes) ==
        IF "1v1" \in SeqToSet(modes) THEN buildOneVsOneCandidates(parsed) ELSE <<>>
      candidates(modes) ==
        StableSort(AddMultiModes(modes, parsed, oneVsOne(modes)), CandidateLess)
      pairsOf(sorted) ==
        [i \in DOMAIN sorted |->
           [leftKeys |-> sorted[i].leftKeys,
            rightKeys |-> sorted[i].rightKeys,
            matchupMode |-> sorted[i].matchupMode,
            prompt |-> buildPrompt(sorted[i].pairKey),
            featured |-> i <= FEATURED_PAIR_COUNT]]
  IN pairsOf(candidates(normalizeMatchupModes(matchupModes)))

AssetKeyLess(a, b) == KeyLess(a.assetKey, b.assetKey)

\* faulty variant: a text with a bad line yields no asset at all
parseMarketpollSeedCsvAborting(csvText, options, env) ==
  LET result(parsed, errors, matchupModes) ==
        [assets |-> parsed,
         pairs |-> generatePairs(parsed, matchupModes),
         errors |-> errors,
         matchupModes |-> matchupModes]
      sorted(read) ==
        result(IF read.errors = <<>> THEN StableSort(read.assets, AssetKeyLess) ELSE <<>>,
               read.errors,
               normalizeMatchupModes(IF options = NoRow THEN normalizeMatchupModes(env)
                                     ELSE options.matchupModes))
  IN sorted(ParseLines(csvText, 1, {}, <<>>, <<>>))

\* lines 505-567; options is the matchupModes option or NoRow, env the list
\* in MARKETPOLL_MATCHUP_MODES of the environment
parseMarketpollSeedCsv(csvText, options, env) ==
  LET result(parsed, errors, matchupModes) ==
        [assets |-> parsed,
         pairs |-> generatePairs(parsed, matchupModes),
         errors |-> errors,
         matchupModes |-> matchupModes]
      sorted(read) ==
        result(StableSort(read.assets, AssetKeyLess), read.errors,
               normalizeMatchupModes(IF options = NoRow THEN normalizeMatchupModes(env)
                                     ELSE options.matchupModes))
  IN sorted(ParseLines(csvText, 1, {}, <<>>, <<>>))

\* ------------------------------- parseMarketpollSeedCsv called twice
MaxSeedLines == 4
\* ranges of a line, in thousands: two of neighbouring tiers, a far one, and
\* one with min > max
RangeInputs == {<<1, 3>>, <<4, 10>>, <<30, 50>>, <<6, 2>>}
\* the token "<amount>k", and a line of two columns
RateK(amount) == [amount |-> amount, unit |-> "k"]
SeedLine(assetKey, seedRangeRaw) == [cols |-> 2, assetKey |-> assetKey, seedRangeRaw |-> seedRangeRaw]
\* seed texts: the assets G(MaxSeedLines), ..., G(1) in this order, one a line
SeedTexts ==
  {[i \in 1..MaxSeedLines |->
      SeedLine(G(MaxSeedLines + 1 - i), <<RateK(r[i][1]), RateK(r[i][2])>>)] :
     r \in [1..MaxSeedLines -> RangeInputs]}
\* texts of PAIR_NEIGHBOR_WINDOW + 2 lines: G(1) with 1k-8k, eight assets with
\* 9k, one tier up and outside that range, and G(PAIR_NEIGHBOR_WINDOW + 2), in
\* their tier, with a range that meets the range of G(1) or does not
FarRanges == {<<2, 17>>, <<9, 10>>}
CoverageSeedTexts ==
  {[i \in 1..(PAIR_NEIGHBOR_WINDOW + 2) |->
      IF i = 1 THEN SeedLine(G(1), <<RateK(1), RateK(8)>>)
      ELSE IF i = PAIR_NEIGHBOR_WINDOW + 2 THEN SeedLine(G(i), <<RateK(far[1]), RateK(far[2])>>)
      ELSE SeedLine(G(i), <<RateK(9)>>)] :
     far \in FarRanges}
ModeOptions == {NoRow, [matchupModes |-> <<"2v1", "1v1", "2v1">>], [matchupModes |-> <<"2v2", "3v3">>]}
ModeEnvs == {<<>>, <<"1v2", "1v1">>}

InitSeedParse ==
  /\ assets = EmptyRows
  /\ pairs = EmptyRows
  /\ scores = EmptyRows
  /\ voters = EmptyRows
  /\ voteEvents = <<>>
  /\ cursor = NoRow
  /\ clock = 0
  /\ vreq = <<>>
  /\ commitOrder = <<>>
  /\ deploy = 0
  /\ redeploys = 0
  /\ greq = <<>>
  /\ \E csvText \in SeedTexts \cup CoverageSeedTexts, options \in ModeOptions, env \in ModeEnvs :
       lib = [pc |-> "call", csvText |-> csvText, options |-> options, env |-> env,
              first |-> NoRow, firstAt |-> NoDay, second |-> NoRow, secondAt |-> NoDay]

\* parseMarketpollSeedCsv(csvText, options)
CallParseMarketpollSeedCsv ==
  /\ lib.pc = "call"
  /\ lib' = [lib EXCEPT !.pc = "again", !.firstAt = clock,
                        !.first = parseMarketpollSeedCsv(lib.csvText, lib.options, lib.env)]
  /\ UNCHANGED <<storeVars, clock, vreq, commitOrder, deploy, redeploys, greq>>

\* the same call once more, at this or a later time
CallParseMarketpollSeedCsvAgain ==
  /\ lib.pc = "again"
  /\ lib' = [lib EXCEPT !.pc = "done", !.secondAt = clock,
                        !.second = parseMarketpollSeedCsv(lib.csvText, lib.options, lib.env)]
  /\ UNCHANGED <<storeVars, clock, vreq, commitOrder, deploy, redeploys, greq>>

NextSeedParse ==
  \/ CallParseMarketpollSeedCsv
  \/ CallParseMarketpollSeedCsvAgain
  \/ Tick /\ UNCHANGED catVars

SpecSeedParse == InitSeedParse /\ [][NextSeedParse]_vars

MaxBucketCount == 3
MaxFeaturedWeight == 3
BucketCounts == 0..MaxBucketCount
FeaturedWeights == 1..MaxFeaturedWeight
\* the value rng() returns, in units of 1 / RngScale
RngValues == 0..(RngScale - 1)

InitBucket ==
  /\ assets = EmptyRows
  /\ pairs = EmptyRows
  /\ scores = EmptyRows
  /\ voters = EmptyRows
  /\ voteEvents = <<>>
  /\ cursor = NoRow
  /\ clock = 0
  /\ vreq = <<>>
  /\ commitOrder = <<>>
  /\ deploy = 0
  /\ redeploys = 0
  /\ greq = <<>>
  /\ \E featuredCount \in BucketCounts, normalCount \in BucketCounts,
        featuredWeight \in FeaturedWeights :
       lib = [pc |-> "call", featuredCount |-> featuredCount, normalCount |-> normalCount,
              featuredWeight |-> featuredWeight, raw |-> 0 - 1, result |-> None]

\* pickWeightedBucket(featuredCount, normalCount, featuredWeight, rng); rng
\* is called once, and only when both counts are positive
CallPickWeightedBucket ==
  /\ lib.pc = "call"
  /\ \E raw \in RngValues :
       lib' = [lib EXCEPT !.pc = "done", !.raw = raw,
                 !.result = pickWeightedBucket(lib.featuredCount, lib.normalCount,
                                               lib.featuredWeight, raw)]
  /\ UNCHANGED <<storeVars, clock, vreq, commitOrder, deploy, redeploys, greq>>

NextBucket == CallPickWeightedBucket

SpecBucket == InitBucket /\ [][NextBucket]_vars

\* C26: pickWeightedBucket returns null exactly when both counts are zero,
\* never returns a bucket whose count is zero, and with both counts positive
\* returns "featured" exactly when floor(r * (featuredCount * W +
\* normalCount)) < featuredCount * W for the drawn r.
C26_WeightedBucket ==
  lib.pc = "done" =>
    /\ (lib.result = None) <=> (lib.featuredCount = 0 /\ lib.normalCount = 0)
    /\ lib.result = "featured" => lib.featuredCount > 0
    /\ lib.result = "normal" => lib.normalCount > 0
    /\ (lib.featuredCount > 0 /\ lib.normalCount > 0) =>
         ((lib.result = "featured") <=>
            ((lib.raw * (lib.featuredCount * lib.featuredWeight + lib.normalCount)) \div RngScale
               < lib.featuredCount * lib.featuredWeight))

\* a draw that falls in the weighted featured share but not in the unweighted
\* one: two featured pairs of weight 2 against three normal ones, r = 0.56
C26_Witness ==
  /\ lib.pc = "done"
  /\ lib.featuredCount = 2
  /\ lib.normalCount = 3
  /\ lib.featuredWeight = 2
  /\ lib.raw = 560
  /\ lib.result = "featured"


\* ------------------------------- matchups for a visitor who voted before
ReleaseOf(build) == CHOOSE i \in DOMAIN Releases : Releases[i] = build
\* the builds that answer: one whose seed is in the store, and a later one
\* whose seed file fails validation and names one pair of the store
ExcludeDeploys == {ReleaseOf(DeployV1), ReleaseOf(DeployFewAssets)}

Repeat(x, n) == [i \in 1..n |-> x]
\* the pairs the visitor voted on, oldest first: none, one vote, and a vote
\* before or after RECENT_PAIR_EXCLUDE_LIMIT votes on another pair
VotedPairLogs ==
  { <<>>,
    <<PairShownBefore>>,
    <<PairOneVsOne>> \o Repeat(PairTwoVsOne, RECENT_PAIR_EXCLUDE_LIMIT),
    Repeat(PairTwoVsOne, RECENT_PAIR_EXCLUDE_LIMIT) \o <<PairOneVsOne>> }

\* the VoteEvent row of a SKIP vote (route.ts lines 144-164)
SkipEventRow(pair, visitorId) ==
  [source |-> "WEB_APP", selectedSide |-> "SKIP", weight |-> 1,
   pairId |-> pair.pairKey, pairKey |-> pair.pairKey, voterId |-> visitorId,
   leftAssetId |-> pair.leftAssetId, rightAssetId |-> pair.rightAssetId,
   selectedAssetId |-> NoKey]

\* the Voter row after n votes at time 0 (route.ts lines 123-142)
RECURSIVE VoterAfterVotes(_)
VoterAfterVotes(n) ==
  IF n = 0 THEN NoRow
  ELSE LET progression == computeStreakAndXp(VoterAfterVotes(n - 1), 0)
       IN [xp |-> progression.nextXp, streakDays |-> progression.streakDays,
           totalVotes |-> progression.nextTotalVotes, lastVotedAt |-> 0]

\* the releases up to the request's build have run, and the visitor's SKIP
\* votes are committed
InitExclude ==
  /\ deploy \in ExcludeDeploys
  /\ assets = StoreHistory[deploy].assets
  /\ pairs = StoreHistory[deploy].pairs
  /\ cursor = StoreHistory[deploy].cursor
  /\ scores = EmptyRows
  /\ \E log \in VotedPairLogs :
       /\ voteEvents = [i \in DOMAIN log |-> SkipEventRow(StoreHistory[deploy].pairs[log[i]], "v1")]
       /\ voters = IF log = <<>> THEN EmptyRows ELSE [v \in {"v1"} |-> VoterAfterVotes(Len(log))]
  /\ clock = 0
  /\ vreq = [r \in VoteReqs |-> IdleVote]
  /\ commitOrder = <<>>
  /\ redeploys = 0
  /\ greq = [g \in GetReqs |-> IdleGet]
  /\ lib = NoRow

NextExclude ==
  \/ \E g \in GetReqs, v \in GetVisitors, x \in SentExcludePairIds : GetStart(g, v, x)
  \/ \E g \in GetReqs : BootHasActiveGolden(g)
  \/ \E g \in GetReqs : BootSeedAssets(g)
  \/ \E g \in GetReqs : BootCountActive(g)
  \/ \E g \in GetReqs : BootCursorFallback(g)
  \/ \E g \in GetReqs : GetReadVoter(g)
  \/ \E g \in GetReqs : PickCount(g)
  \/ \E g \in GetReqs : PickFind(g)
  \/ \E g \in GetReqs : GetFindUnique(g)

SpecExclude == InitExclude /\ [][NextExclude]_vars

\* the visitor's WEB_APP votes, oldest first
VotesOf(visitorId) ==
  SelectSeq(voteEvents, LAMBDA e : e.source = "WEB_APP" /\ e.voterId = visitorId)
ExcludeParam(q) == IF q.excludePairId = NoKey THEN {} ELSE {q.excludePairId}

\* the pair ids of the visitor's last RECENT_PAIR_EXCLUDE_LIMIT votes, plus
\* excludePairId
LastVotesList(q) ==
  LET log == VotesOf(q.visitorId)
      from == Max(1, Len(log) - RECENT_PAIR_EXCLUDE_LIMIT + 1)
  IN {log[i].pairId : i \in from..Len(log)} \cup ExcludeParam(q)

\* the visitor's last RECENT_PAIR_EXCLUDE_LIMIT distinct voted pairs, plus
\* excludePairId
LastDistinctPairsList(q) ==
  LET log == VotesOf(q.visitorId)
      lastVote(p) == CHOOSE i \in DOMAIN log :
                       log[i].pairId = p /\ \A j \in DOMAIN log : log[j].pairId = p => j <= i
      voted == {log[i].pairId : i \in DOMAIN log}
  IN {p \in voted :
        Cardinality({o \in voted : lastVote(o) > lastVote(p)}) < RECENT_PAIR_EXCLUDE_LIMIT}
       \cup ExcludeParam(q)

\* the selection has started: the exclusion list has been put together
Selecting(q) == q.pc \in {"count", "pick", "findUnique", "done"}

C25_State ==
  \A g \in GetReqs :
    Selecting(greq[g]) =>
      /\ greq[g].excludedPairIds = LastVotesList(greq[g])
      /\ (greq[g].status = 200 /\ greq[g].selectedPairId \in LastVotesList(greq[g])) =>
           greq[g].where = "base"

C25_Step ==
  \A g \in GetReqs :
    (greq[g].where = "filtered" /\ greq'[g].where = "base") =>
      EligibleIds(pairs, greq[g]) \subseteq LastVotesList(greq[g])

\* C25 (amended): the exclusion list is the pair ids of the visitor's last 20
\* votes plus excludePairId. GET /api/matchups/next returns a pair of that
\* list only from the selection repeated without the exclusions, and it goes
\* over to that selection only at a moment when every active eligible pair
\* of the store is on the list.
C25_ExcludedOnlyWhenPoolCovered == []C25_State /\ [][C25_Step]_vars

\* a visitor with more than 20 votes was answered with a pair off the list
\* while the list held eligible pairs
C25_Witness ==
  \E g \in GetReqs :
    /\ greq[g].pc = "done" /\ greq[g].status = 200 /\ greq[g].where = "filtered"
    /\ Len(voteEvents) > RECENT_PAIR_EXCLUDE_LIMIT
    /\ LastVotesList(greq[g]) \cap EligibleIds(pairs, greq[g]) # {}
    /\ greq[g].selectedPairId \notin LastVotesList(greq[g])

C25_AsStatedState ==
  \A g \in GetReqs :
    (greq[g].status = 200 /\ greq[g].selectedPairId \in LastDistinctPairsList(greq[g])) =>
      greq[g].where = "base"

C25_AsStatedStep ==
  \A g \in GetReqs :
    (greq[g].where = "filtered" /\ greq'[g].where = "base") =>
      EligibleIds(pairs, greq[g]) \subseteq LastDistinctPairsList(greq[g])

\* C25 as stated: the same with the list being the visitor's last 20 distinct
\* voted pairs plus excludePairId
C25_AsStated == []C25_AsStatedState /\ [][C25_AsStatedStep]_vars


\* ----------------------------------- three votes on one pair, concurrent
MaxCounterVotes == 3
CounterReqs == 1..MaxCounterVotes

InitCounters ==
  /\ assets = SeededAssets(DeployV1.seed)
  /\ pairs = SeededPairs(DeployV1.seed)
  /\ scores = EmptyRows
  /\ voters = EmptyRows
  /\ voteEvents = <<>>
  /\ cursor = CursorValue(DeployV1.version, FALSE)
  /\ clock = 0
  /\ vreq = [r \in CounterReqs |-> IdleVote]
  /\ commitOrder = <<>>
  /\ deploy = 0
  /\ redeploys = 0
  /\ greq = <<>>
  /\ lib = NoRow

\* decisive votes on the pair Golden1 vs Golden2
NextCounters ==
  \/ \E r \in CounterReqs :
       /\ VoteLookup(r)
       /\ vreq'[r].pairId = PairOneVsOne
       /\ vreq'[r].selectedSide \in {"LEFT", "RIGHT"}
       /\ UNCHANGED catVars
  \/ \E r \in CounterReqs : TxVoterUpsert(r) /\ UNCHANGED catVars
  \/ \E r \in CounterReqs : TxReadScores(r) /\ UNCHANGED catVars
  \/ \E r \in CounterReqs : TxScoreUpsert(r) /\ UNCHANGED catVars
  \/ \E r \in CounterReqs : TxCommit(r) /\ UNCHANGED catVars
  \/ \E r \in CounterReqs : TxFail(r) /\ UNCHANGED catVars

SpecCounters == InitCounters /\ [][NextCounters]_vars

C28_State ==
  \A a \in DOMAIN scores :
    /\ scores[a].wins + scores[a].losses + scores[a].ties = scores[a].pollsCount
    /\ scores[a].votesFor + scores[a].votesAgainst = scores[a].pollsCount

C28_Step ==
  \A a \in DOMAIN scores :
    a \in DOMAIN scores' /\ scores'[a].pollsCount >= scores[a].pollsCount

\* C28: after any sequence of committed web votes, sequential or concurrent,
\* every AssetScore row has wins + losses + ties = pollsCount and votesFor +
\* votesAgainst = pollsCount, and no commit lowers a row's pollsCount.
C28_CountersConsistent == []C28_State /\ [][C28_Step]_vars


\* ---------------------------- a vote on a pair that is being deactivated
C30_Step ==
  \A r \in VoteReqs :
    (voteEvents' # voteEvents /\ vreq[r].pc = "commit" /\ vreq'[r].pc = "done") =>
      pairs[vreq[r].pairId].active

\* C30: no commit of a vote transaction adds a VoteEvent or changes an
\* AssetScore for a pair that is inactive at the moment of the commit, also
\* when ensureBootstrapData deactivated the pair after the handler looked
\* it up.
C30_NoVoteOnInactivePair == [][C30_Step]_vars


\* ------------------------------------------- the writes of the cursor
\* the run of request g executes one of its two ingestionCursor.upsert calls
WritesCursor(g) == greq[g].pc \in {"cursorSeeded", "cursorFallback"} /\ greq'[g] # greq[g]

\* the rows a seeded run of the build inserts are in the store
SeedInserted(build) ==
  /\ build.seed.assets \subseteq DOMAIN assets
  /\ \A sp \in build.seed.pairs :
       SeedPairRow(sp, build.seed.assets) # NoRow =>
         canonicalPairKey(sp.leftKeys, sp.rightKeys) \in DOMAIN pairs

\* the rows the run of request g deactivates are inactive
NonGoldenDeactivated(g) ==
  /\ \A k \in DOMAIN assets : ~StartsWithGolden(k) => ~assets[k].active
  /\ \A k \in greq[g].nonGoldenPairIds : ~pairs[k].active

C23_Step ==
  /\ cursor' # cursor => \E g \in GetReqs : WritesCursor(g)
  /\ \A g \in GetReqs :
       WritesCursor(g) =>
         IF greq[g].pc = "cursorSeeded"
         THEN /\ SeedValid(Build(greq[g]).seed)
              /\ SeedInserted(Build(greq[g]))
              /\ NonGoldenDeactivated(g)
              /\ cursor' = CursorValue(Build(greq[g]).version, FALSE)
         ELSE /\ ~SeedValid(Build(greq[g]).seed)
              /\ CountActivePairs(pairs) > 0
              /\ cursor' = CursorValue(Build(greq[g]).version, TRUE)
              /\ cursor' # CursorValue(Build(greq[g]).version, FALSE)

\* C23 (amended): the cursor is written only by the last statement of an
\* ensureBootstrapData run. A run whose seed import succeeded writes the
\* seed version, after its inserts and deactivations; a run whose import
\* failed writes the fallback marker of the version, never the seed version
\* itself, after the fallback catalog is in place.
C23_CursorWrittenLast == [][C23_Step]_vars

\* a run whose import succeeded has inserted rows, deactivated pairs and
\* written the seed version
C23_Witness ==
  \E g \in GetReqs :
    /\ greq[g].pc = "voter" /\ greq[g].bootOutcome = "seeded"
    /\ greq[g].nonGoldenPairIds # {}
    /\ cursor = CursorValue(Build(greq[g]).version, FALSE)

C23_AsStatedStep ==
  \A g \in GetReqs :
    WritesCursor(g) =>
      /\ SeedValid(Build(greq[g]).seed)
      /\ SeedInserted(Build(greq[g]))
      /\ NonGoldenDeactivated(g)

\* C23 as stated: the cursor is never written when the seed import failed,
\* and a successful run writes it after its inserts and deactivations
C23_AsStated == [][C23_AsStatedStep]_vars

\* ------------------------------- active pairs after a successful run
\* C24: once a successful ensureBootstrapData run has ended and no run is
\* under way, every asset of both sides of every active pair, first member
\* of its side or not, is Golden-prefixed.
C24_ActivePairsAllGolden ==
  (BootRunsEnded /\ \E g \in GetReqs : greq[g].bootOutcome = "seeded") =>
    \A k \in DOMAIN pairs :
      pairs[k].active =>
        /\ StartsWithGolden(pairs[k].leftAssetId)
        /\ StartsWithGolden(pairs[k].rightAssetId)
        /\ \A i \in DOMAIN pairs[k].leftAssetKeys : StartsWithGolden(pairs[k].leftAssetKeys[i])
        /\ \A i \in DOMAIN pairs[k].rightAssetKeys : StartsWithGolden(pairs[k].rightAssetKeys[i])


\* ------------------------- calls of ensureBootstrapData one after another
\* three requests, a build whose seed file may be replaced by the next one
MaxReseedRequests == 3
ReseedReqs == 1..MaxReseedRequests

InitReseed ==
  /\ assets = EmptyRows
  /\ pairs = EmptyRows
  /\ scores = EmptyRows
  /\ voters = EmptyRows
  /\ voteEvents = <<>>
  /\ cursor = NoRow
  /\ clock = 0
  /\ vreq = [r \in VoteReqs |-> IdleVote]
  /\ commitOrder = <<>>
  /\ deploy \in DOMAIN Releases
  /\ redeploys = 0
  /\ greq = [g \in ReseedReqs |-> IdleGet]
  /\ lib = NoRow

NextReseed ==
  \/ \E g \in ReseedReqs, v \in GetVisitors : GetStart(g, v, NoKey)
  \/ \E g \in ReseedReqs : BootHasActiveGolden(g)
  \/ \E g \in ReseedReqs : BootSeedAssets(g)
  \/ \E g \in ReseedReqs : BootFindAssets(g)
  \/ \E g \in ReseedReqs : BootSeedPairs(g)
  \/ \E g \in ReseedReqs : BootDeactivateAssets(g)
  \/ \E g \in ReseedReqs : BootReadPairs(g)
  \/ \E g \in ReseedReqs : BootDeactivatePairs(g)
  \/ \E g \in ReseedReqs : BootCursorSeeded(g)
  \/ \E g \in ReseedReqs : BootCountActive(g)
  \/ \E g \in ReseedReqs : FallbackAssets(g)
  \/ \E g \in ReseedReqs : FallbackFindAssets(g)
  \/ \E g \in ReseedReqs : FallbackPairs(g)
  \/ \E g \in ReseedReqs : BootCursorFallback(g)
  \/ Redeploy

SpecReseed == InitReseed /\ [][NextReseed]_vars

\* the cursor holds the seed version of some build
CursorIsSeedVersion == \E d \in DOMAIN Releases : cursor = CursorValue(Releases[d].version, FALSE)

C29_Step ==
  \A g \in ReseedReqs :
    \* the fallback path leaves a cursor that is no build's seed version
    /\ (greq[g].pc = "cursorFallback" /\ greq'[g] # greq[g]) => ~CursorIsSeedVersion'
    \* a call that finds such a cursor, or another build's version, goes to the import
    /\ (greq[g].pc = "idle" /\ greq'[g] # greq[g] /\ cursor # CursorValue(Releases[deploy].version, FALSE)) =>
         greq'[g].pc = "seed"
    \* the import is applied when the seed file validates, and only then
    /\ (greq[g].pc = "seed" /\ greq'[g] # greq[g]) =>
         (greq'[g].pc = "findAssets" <=> SeedValid(Build(greq[g]).seed))
    \* the call that applied the import sets the cursor to its seed version
    /\ (greq[g].pc = "cursorSeeded" /\ greq'[g] # greq[g]) =>
         /\ greq'[g].bootOutcome = "seeded"
         /\ cursor' = CursorValue(Build(greq[g]).version, FALSE)
    \* once the cursor is the build's version, calls return early while an
    \* active Golden pair exists
    /\ (greq[g].pc = "idle" /\ greq'[g] # greq[g] /\ cursor = CursorValue(Releases[deploy].version, FALSE)) =>
         greq'[g].pc = "hasGolden"
    /\ (greq[g].pc = "hasGolden" /\ greq'[g] # greq[g] /\ hasActiveGoldenPairs(pairs)) =>
         /\ greq'[g].pc = "voter" /\ greq'[g].bootOutcome = "skipped"
         /\ storeVars' = storeVars

C29_State ==
  \A g \in ReseedReqs :
    \* a call that went to the import ends with the import applied exactly
    \* when the seed file of its build validates
    (greq[g].pc = "voter" /\ greq[g].bootOutcome # "skipped") =>
      (greq[g].bootOutcome = "seeded" <=> SeedValid(Build(greq[g]).seed))

\* C29: the fallback path leaves a cursor different from every seed version,
\* so each later call of ensureBootstrapData goes to the seed import again;
\* the import is applied as soon as the build's seed file validates and that
\* call sets the cursor to the seed version; from then on a call of that
\* build returns early, without a write, while an active Golden pair exists.
C29_FallbackRetriesUntilSeeded == []C29_State /\ [][C29_Step]_vars

\* a first call took the fallback path, a call of the next build applied its
\* valid seed file, and a third call returned early
C29_Witness ==
  \E g1, g2, g3 \in ReseedReqs :
    /\ greq[g1].pc = "voter" /\ greq[g1].bootOutcome = "fallback"
    /\ greq[g2].pc = "voter" /\ greq[g2].bootOutcome = "seeded" /\ greq[g2].deploy = greq[g1].deploy + 1
    /\ greq[g3].pc = "voter" /\ greq[g3].bootOutcome = "skipped"
    /\ cursor = CursorValue(Releases[deploy].version, FALSE)


\* ------------------------------ parseMarketpollSeedCsv on texts with bad rows
MaxErrorLines == 3
\* a blank line or comment, a row of one column, a row with an empty key
BlankLine == [cols |-> 0, assetKey |-> NoKey, seedRangeRaw |-> <<>>]
OneColumnLine == [cols |-> 1, assetKey |-> G(1), seedRangeRaw |-> <<>>]
EmptyKeyLine == [cols |-> 2, assetKey |-> NoKey, seedRangeRaw |-> <<RateK(1), RateK(3)>>]
\* range texts: none, "abc", "1k-3zz", "6k-2k", "1k-3k", "4-10k"
RangeTexts ==
  { <<>>,
    <<[amount |-> NoAmount, unit |-> ""]>>,
    <<RateK(1), [amount |-> 3, unit |-> "zz"]>>,
    <<RateK(6), RateK(2)>>,
    <<RateK(1), RateK(3)>>,
    <<[amount |-> 4, unit |-> ""], RateK(10)>> }
ErrorLineInputs ==
  {BlankLine, OneColumnLine, EmptyKeyLine}
    \cup {SeedLine(G(k), r) : k \in 1..2, r \in RangeTexts}

InitSeedErrors ==
  /\ assets = EmptyRows
  /\ pairs = EmptyRows
  /\ scores = EmptyRows
  /\ voters = EmptyRows
  /\ voteEvents = <<>>
  /\ cursor = NoRow
  /\ clock = 0
  /\ vreq = <<>>
  /\ commitOrder = <<>>
  /\ deploy = 0
  /\ redeploys = 0
  /\ greq = <<>>
  /\ \E csvText \in [1..MaxErrorLines -> ErrorLineInputs] :
       lib = [pc |-> "call", csvText |-> csvText, result |-> NoRow]

\* parseMarketpollSeedCsv(csvText)
CallParseSeedRows ==
  /\ lib.pc = "call"
  /\ lib' = [lib EXCEPT !.pc = "done",
                        !.result = parseMarketpollSeedCsv(lib.csvText, NoRow, <<>>)]
  /\ UNCHANGED <<storeVars, clock, vreq, commitOrder, deploy, redeploys, greq>>

NextSeedErrors == CallParseSeedRows

SpecSeedErrors == InitSeedErrors /\ [][NextSeedErrors]_vars

\* row i has a key and a range text
RowReaches(i) ==
  lib.csvText[i].cols >= 2 /\ lib.csvText[i].assetKey # NoKey /\ lib.csvText[i].seedRangeRaw # <<>>
\* row i has a key and no range text
RowWithoutRange(i) ==
  lib.csvText[i].cols >= 2 /\ lib.csvText[i].assetKey # NoKey /\ lib.csvText[i].seedRangeRaw = <<>>
RowFirstOfKey(i) ==
  RowReaches(i) /\ \A j \in 1..(i - 1) : RowReaches(j) => lib.csvText[j].assetKey # lib.csvText[i].assetKey
RowMalformed(i) ==
  \/ lib.csvText[i].cols = 1
  \/ lib.csvText[i].cols >= 2 /\ lib.csvText[i].assetKey = NoKey
  \/ RowFirstOfKey(i) /\ ~parseSeedRange(lib.csvText[i].seedRangeRaw).ok
RowRepeated(i) == RowReaches(i) /\ ~RowFirstOfKey(i)
RowKept(i) == RowFirstOfKey(i) /\ parseSeedRange(lib.csvText[i].seedRangeRaw).ok
ErrorLinesOf(result) == {result.errors[e].lineNo : e \in DOMAIN result.errors}

\* C22 (amended): parseMarketpollSeedCsv returns for every text. Each row with
\* one column, an empty key, or an unparseable or inverted range, and each
\* row that repeats the key of an earlier row with a range text, is one entry
\* of errors and gives no asset; a row with a key and an empty range is
\* skipped without an entry; the first row of a key with a range text gives
\* the asset of that key when its range is valid, and every such row is
\* parsed whatever the other rows are.
C22_BadRowsRecorded ==
  lib.pc = "done" =>
    /\ lib.result # NoRow
    /\ ErrorLinesOf(lib.result) = {i \in DOMAIN lib.csvText : RowMalformed(i) \/ RowRepeated(i)}
    /\ Len(lib.result.errors) = Cardinality(ErrorLinesOf(lib.result))
    /\ Len(lib.result.assets) = Cardinality({i \in DOMAIN lib.csvText : RowKept(i)})
    /\ \A i \in DOMAIN lib.csvText :
         RowKept(i) =>
           \E a \in DOMAIN lib.result.assets :
             /\ lib.result.assets[a].assetKey = lib.csvText[i].assetKey
             /\ lib.result.assets[a].seedRangeRaw = lib.csvText[i].seedRangeRaw
    /\ \A a, b \in DOMAIN lib.result.assets :
         lib.result.assets[a].assetKey = lib.result.assets[b].assetKey => a = b

\* a valid row, a row repeating its key with another range, and a row with
\* an inverted range: one asset, two entries of errors
C22_Witness ==
  /\ lib.pc = "done"
  /\ RowKept(1) /\ RowRepeated(2) /\ lib.csvText[2].seedRangeRaw # lib.csvText[1].seedRangeRaw
  /\ RowMalformed(3) /\ lib.csvText[3].seedRangeRaw = <<RateK(6), RateK(2)>>
  /\ Len(lib.result.assets) = 1 /\ Len(lib.result.errors) = 2

\* a row is bad as the claim lists it: too few columns, an empty key, or a
\* missing, unparseable or inverted range
RowBadAsClaimed(i) ==
  \/ lib.csvText[i].cols = 1
  \/ lib.csvText[i].cols >= 2 /\ lib.csvText[i].assetKey = NoKey
  \/ RowWithoutRange(i)
  \/ RowReaches(i) /\ ~parseSeedRange(lib.csvText[i].seedRangeRaw).ok

\* C22 as stated: every bad row, a row with a missing range included, is an
\* entry of errors and gives no asset
C22_AsStated ==
  lib.pc = "done" =>
    \A i \in DOMAIN lib.csvText : RowBadAsClaimed(i) => i \in ErrorLinesOf(lib.result)


\* ------------------------------------------- the sides of a generated pair
\* the tier index and the range of a side: those of the sums over its assets
SideOf(keys, parsed) ==
  [tierIndex |-> tierForMidX(SeqSum([i \in DOMAIN keys |->
                   parsed[CHOOSE j \in DOMAIN parsed : parsed[j].assetKey = keys[i]].midX])),
   minX |-> SeqSum([i \in DOMAIN keys |->
                   parsed[CHOOSE j \in DOMAIN parsed : parsed[j].assetKey = keys[i]].minX]),
   maxX |-> SeqSum([i \in DOMAIN keys |->
                   parsed[CHOOSE j \in DOMAIN parsed : parsed[j].assetKey = keys[i]].maxX])]
SidesCompatible(l, r) ==
  /\ l.tierIndex - r.tierIndex \in {0 - 1, 0, 1}
  /\ l.tierIndex # r.tierIndex =>
       (IF l.maxX < r.maxX THEN l.maxX ELSE r.maxX) > (IF l.minX > r.minX THEN l.minX ELSE r.minX)

\* C27: every pair parseMarketpollSeedCsv returns, of any matchup mode, has
\* two sides whose tier indexes differ by at most 1 and whose ranges
\* overlap when the indexes differ.
C27_PairsCompatible ==
  lib.first # NoRow =>
    \A p \in DOMAIN lib.first.pairs :
      SidesCompatible(SideOf(lib.first.pairs[p].leftKeys, lib.first.assets),
                      SideOf(lib.first.pairs[p].rightKeys, lib.first.assets))

\* the place of an asset in the order of line 412
PlaceByMidX(key, parsed) ==
  CHOOSE i \in DOMAIN parsed : StableSort(parsed, AssetLess)[i].assetKey = key

\* the result holds a 1v1 pair of assets one tier apart and more than
\* PAIR_NEIGHBOR_WINDOW places apart, which only the pass of lines 450-466
\* makes, 1v1 pairs of neighbours and a pair of teams; assets one tier apart
\* with ranges that do not meet were among the candidates tried
C27_Witness ==
  /\ lib.first # NoRow
  /\ \E p \in DOMAIN lib.first.pairs :
       /\ lib.first.pairs[p].matchupMode = "1v1"
       /\ SideOf(lib.first.pairs[p].leftKeys, lib.first.assets).tierIndex
            # SideOf(lib.first.pairs[p].rightKeys, lib.first.assets).tierIndex
       /\ PlaceByMidX(lib.first.pairs[p].rightKeys[1], lib.first.assets)
            - PlaceByMidX(lib.first.pairs[p].leftKeys[1], lib.first.assets) > PAIR_NEIGHBOR_WINDOW
  /\ \E p \in DOMAIN lib.first.pairs :
       /\ lib.first.pairs[p].matchupMode = "1v1"
       /\ PlaceByMidX(lib.first.pairs[p].rightKeys[1], lib.first.assets)
            - PlaceByMidX(lib.first.pairs[p].leftKeys[1], lib.first.assets) = 1
  /\ \E p \in DOMAIN lib.first.pairs : lib.first.pairs[p].matchupMode # "1v1"
  /\ \E a, b \in DOMAIN lib.first.assets :
       ~SidesCompatible(SideOf(<<lib.first.assets[a].assetKey>>, lib.first.assets),
                        SideOf(<<lib.first.assets[b].assetKey>>, lib.first.assets))


\* ------------------------------------------------- lib/ingest-discord.ts
\* a poll run as the bot reports it; messageId "" is a blank id
PollRun(messageId, leftAssetKey, rightAssetKey, leftVotes, rightVotes) ==
  [messageId |-> messageId, leftAssetKey |-> leftAssetKey, rightAssetKey |-> rightAssetKey,
   leftVotes |-> leftVotes, rightVotes |-> rightVotes]

\* lines 31-45: asset.upsert
ensureAsset(rows, assetKey) ==
  [k \in DOMAIN rows \cup {assetKey} |->
     IF k # assetKey THEN rows[k]
     ELSE IF k \in DOMAIN rows THEN [rows[k] EXCEPT !.active = TRUE]
     ELSE [active |-> TRUE, seedSourced |-> FALSE]]

\* lines 47-63: votingPair.upsert; the columns not given take the defaults
\* of the schema
ensurePair(rows, leftAssetId, rightAssetId, pairKey) ==
  [k \in DOMAIN rows \cup {pairKey} |->
     IF k # pairKey THEN rows[k]
     ELSE IF k \in DOMAIN rows
     THEN [rows[k] EXCEPT !.leftAssetId = leftAssetId, !.rightAssetId = rightAssetId,
                          !.active = TRUE]
     ELSE [pairKey |-> pairKey, leftAssetId |-> leftAssetId, rightAssetId |-> rightAssetId,
           leftAssetKeys |-> <<>>, rightAssetKeys |-> <<>>, matchupMode |-> "1v1",
           featured |-> FALSE, active |-> TRUE]]

\* lines 80-101 and 111-122: the row of one side of a poll
PollEventRow(run, pairKey, selectedSide) ==
  [source |-> "DISCORD_BOT",
   selectedSide |-> selectedSide,
   weight |-> Max(0, IF selectedSide = "LEFT" THEN run.leftVotes ELSE run.rightVotes),
   pairId |-> pairKey,
   pairKey |-> pairKey,
   voterId |-> None,
   leftAssetId |-> run.leftAssetKey,
   rightAssetId |-> run.rightAssetKey,
   selectedAssetId |-> IF selectedSide = "LEFT" THEN run.leftAssetKey ELSE run.rightAssetKey,
   pollMessageId |-> run.messageId]

\* faulty variant: the row is looked up by source and pollMessageId alone
VoteEventUpsertByMessage(rows, row) ==
  LET found == {i \in DOMAIN rows :
                  /\ rows[i].source = row.source
                  /\ rows[i].pollMessageId = row.pollMessageId}
  IN IF found = {} THEN Append(rows, row)
     ELSE [i \in DOMAIN rows |-> IF i \in found THEN row ELSE rows[i]]

\* lines 104-124 and 127-147: voteEvent.upsert on the unique key
\* source_pollMessageId_selectedSide
VoteEventUpsert(rows, row) ==
  LET found == {i \in DOMAIN rows :
                  /\ rows[i].source = row.source
                  /\ rows[i].pollMessageId = row.pollMessageId
                  /\ rows[i].selectedSide = row.selectedSide}
  IN IF found = {} THEN Append(rows, row)
     ELSE [i \in DOMAIN rows |-> IF i \in found THEN row ELSE rows[i]]

IngestStep(pc, next) ==
  /\ lib.pc = pc
  /\ lib' = next

\* lines 71-75: the next run of the list; a run with a blank id or one asset
\* on both sides is passed over
IngestNextRun ==
  /\ IngestStep("next",
       IF lib.idx > Len(lib.runs) THEN [lib EXCEPT !.pc = "returned"]
       ELSE IF lib.runs[lib.idx].messageId = ""
               \/ lib.runs[lib.idx].leftAssetKey = lib.runs[lib.idx].rightAssetKey
       THEN [lib EXCEPT !.idx = lib.idx + 1]
       ELSE [lib EXCEPT !.pc = "ensureLeft"])
  /\ UNCHANGED <<storeVars, clock, vreq, commitOrder, deploy, redeploys, greq>>

\* line 77
IngestEnsureLeft ==
  /\ IngestStep("ensureLeft", [lib EXCEPT !.pc = "ensureRight"])
  /\ assets' = ensureAsset(assets, lib.runs[lib.idx].leftAssetKey)
  /\ UNCHANGED <<pairs, scores, voters, voteEvents, cursor, clock, vreq, commitOrder,
                 deploy, redeploys, greq>>

\* line 78
IngestEnsureRight ==
  /\ IngestStep("ensureRight", [lib EXCEPT !.pc = "ensurePair"])
  /\ assets' = ensureAsset(assets, lib.runs[lib.idx].rightAssetKey)
  /\ UNCHANGED <<pairs, scores, voters, voteEvents, cursor, clock, vreq, commitOrder,
                 deploy, redeploys, greq>>

\* lines 79-80
IngestEnsurePair ==
  /\ IngestStep("ensurePair",
       [lib EXCEPT !.pc = "upsertLeft",
                   !.pairKey = canonicalPairKey(<<lib.runs[lib.idx].leftAssetKey>>,
                                                <<lib.runs[lib.idx].rightAssetKey>>)])
  /\ pairs' = ensurePair(pairs, lib.runs[lib.idx].leftAssetKey, lib.runs[lib.idx].rightAssetKey,
                         canonicalPairKey(<<lib.runs[lib.idx].leftAssetKey>>,
                                          <<lib.runs[lib.idx].rightAssetKey>>))
  /\ UNCHANGED <<assets, scores, voters, voteEvents, cursor, clock, vreq, commitOrder,
                 deploy, redeploys, greq>>

\* lines 104-125
IngestUpsertLeft ==
  /\ IngestStep("upsertLeft", [lib EXCEPT !.pc = "upsertRight", !.upsertedVotes = lib.upsertedVotes + 1])
  /\ voteEvents' = VoteEventUpsert(voteEvents, PollEventRow(lib.runs[lib.idx], lib.pairKey, "LEFT"))
  /\ UNCHANGED <<assets, pairs, scores, voters, cursor, clock, vreq, commitOrder,
                 deploy, redeploys, greq>>

\* lines 127-148
IngestUpsertRight ==
  /\ IngestStep("upsertRight",
       [lib EXCEPT !.pc = "next", !.idx = lib.idx + 1, !.upsertedVotes = lib.upsertedVotes + 1])
  /\ voteEvents' = VoteEventUpsert(voteEvents, PollEventRow(lib.runs[lib.idx], lib.pairKey, "RIGHT"))
  /\ UNCHANGED <<assets, pairs, scores, voters, cursor, clock, vreq, commitOrder,
                 deploy, redeploys, greq>>

\* -------------------- the VoteEvent log under votes, ingestion and bootstrap
MaxPollRuns == 2
\* a poll reported twice with other counts, a poll on an asset the catalog
\* does not have, a run with a blank id, a run with one asset on both sides
PollRunInputs ==
  { PollRun("m1", G(1), G(2), 3, 1),
    PollRun("m1", G(1), G(2), 5, 1),
    PollRun("m2", P(1), G(2), 2, 2),
    PollRun("", G(1), G(2), 1, 1),
    PollRun("m2", G(1), G(1), 1, 0) }
IngestVoteReqs == {1}
IngestGets == {1}

\* the store the second build left; the third build is live, one vote, one
\* request for a matchup and one call of ingestDiscordPollRuns arrive
InitIngest ==
  /\ assets = StoreHistory[2].assets
  /\ pairs = StoreHistory[2].pairs
  /\ scores = EmptyRows
  /\ voters = EmptyRows
  /\ voteEvents = <<>>
  /\ cursor = StoreHistory[2].cursor
  /\ clock = 0
  /\ vreq = [r \in IngestVoteReqs |-> IdleVote]
  /\ commitOrder = <<>>
  /\ deploy = 3
  /\ redeploys = 0
  /\ greq = [g \in IngestGets |-> IdleGet]
  /\ \E runs \in [1..MaxPollRuns -> PollRunInputs] :
       lib = [pc |-> "next", runs |-> runs, idx |-> 1, pairKey |-> NoKey, upsertedVotes |-> 0]

NextIngest ==
  \/ \E r \in IngestVoteReqs :
       /\ VoteLookup(r)
       /\ vreq'[r].pairId = PairOneVsOne
       /\ vreq'[r].selectedSide = "LEFT"
       /\ vreq'[r].visitorId = "v1"
       /\ UNCHANGED catVars
  \/ \E r \in IngestVoteReqs : TxVoterUpsert(r) /\ UNCHANGED catVars
  \/ \E r \in IngestVoteReqs : TxReadScores(r) /\ UNCHANGED catVars
  \/ \E r \in IngestVoteReqs : TxScoreUpsert(r) /\ UNCHANGED catVars
  \/ \E r \in IngestVoteReqs : TxCommit(r) /\ UNCHANGED catVars
  \/ \E r \in IngestVoteReqs : TxFail(r) /\ UNCHANGED catVars
  \/ \E g \in IngestGets, v \in GetVisitors : GetStart(g, v, NoKey)
  \/ \E g \in IngestGets : BootSeedAssets(g)
  \/ \E g \in IngestGets : BootFindAssets(g)
  \/ \E g \in IngestGets : BootSeedPairs(g)
  \/ \E g \in IngestGets : BootDeactivateAssets(g)
  \/ \E g \in IngestGets : BootReadPairs(g)
  \/ \E g \in IngestGets : BootDeactivatePairs(g)
  \/ \E g \in IngestGets : BootCursorSeeded(g)
  \/ IngestNextRun
  \/ IngestEnsureLeft
  \/ IngestEnsureRight
  \/ IngestEnsurePair
  \/ IngestUpsertLeft
  \/ IngestUpsertRight

SpecIngest == InitIngest /\ [][NextIngest]_vars

IsPollRow(row) == row.source = "DISCORD_BOT"
SamePollKey(a, b) ==
  IsPollRow(a) /\ IsPollRow(b) /\ a.pollMessageId = b.pollMessageId /\ a.selectedSide = b.selectedSide

C21_Step ==
  /\ Len(voteEvents') >= Len(voteEvents)
  /\ Len(voteEvents') <= Len(voteEvents) + 1
  /\ \A i \in DOMAIN voteEvents :
       /\ ~IsPollRow(voteEvents[i]) => voteEvents'[i] = voteEvents[i]
       /\ voteEvents'[i] # voteEvents[i] =>
            /\ SamePollKey(voteEvents[i], voteEvents'[i])
            /\ lib.pc \in {"upsertLeft", "upsertRight"} /\ lib' # lib
            /\ Len(voteEvents') = Len(voteEvents)
  /\ \A i, j \in DOMAIN voteEvents' : SamePollKey(voteEvents'[i], voteEvents'[j]) => i = j

\* C21 (amended): no VoteEvent row is ever deleted and the row of a web vote
\* is never changed: vote submission and catalog synchronization only append
\* to the log or leave it alone. Discord poll ingestion keeps one row for each
\* poll message and side: it appends the row the first time the poll is
\* reported and rewrites that row in place when the poll is reported again.
C21_WebRowsImmutable == [][C21_Step]_vars

\* the log holds the row of a web vote and, after it, the rows of a poll that
\* was reported twice, now with the counts of the second report; the
\* bootstrap run has ended
C21_Witness ==
  /\ lib.pc = "returned"
  /\ lib.runs[1] = PollRun("m1", G(1), G(2), 3, 1) /\ lib.runs[2] = PollRun("m1", G(1), G(2), 5, 1)
  /\ Len(voteEvents) = 3
  /\ voteEvents[1].source = "WEB_APP"
  /\ voteEvents[2] = PollEventRow(lib.runs[2], PairOneVsOne, "LEFT")
  /\ \E g \in IngestGets : greq[g].pc = "voter" /\ greq[g].bootOutcome = "seeded"

C21_AsStatedStep ==
  /\ Len(voteEvents') >= Len(voteEvents)
  /\ \A i \in DOMAIN voteEvents : voteEvents'[i] = voteEvents[i]

\* C21 as stated: the only write ever made to the VoteEvent log is the append
\* of a new row
C21_AsStated == [][C21_AsStatedStep]_vars

====
